---- MODULE Spec2Model ----
(***************************************************************************)
(* Attendance-Data-Backend: the three read endpoints                       *)
(*   GET /api/student/:rollNumber                                          *)
(*   GET /api/student/:rollNumber/attendance                               *)
(*   GET /api/student/:rollNumber/combined                                 *)
(* in the two variants of the repository: the tall/vertical one            *)
(* (src/app.js, one sheet row per student and date) and the                *)
(* wide/horizontal one (src/unnamed/part_000, one sheet row per student    *)
(* with repeating date/status/time columns).                               *)
(*                                                                         *)
(* Cell text is a sequence of one-character strings, so that includes,     *)
(* split, toLowerCase and the date parsing are computed as the code        *)
(* computes them.  Column indexes are zero-based as in the code, -1 is     *)
(* findIndex's "not found".  The Sheets API hands out formatted values:    *)
(* every cell of a row is a string and a missing cell reads as undefined.  *)
(* Dates are read in the server's local time, taken to be UTC.             *)
(***************************************************************************)
EXTENDS Integers, Sequences, FiniteSets, TLC

VARIABLES variant, reqs

vars == <<variant, reqs>>

(***************************************************************************)
(* Bounds of the model.                                                    *)
(***************************************************************************)
MaxStudentRows == 1
MaxAttRows == 2
MaxBlocks == 3
MaxWideRows == 1
MaxHeaderCells == 5

(***************************************************************************)
(* JavaScript values and strings.                                          *)
(***************************************************************************)
Undefined == <<"undefined">>

Falsy(v) == v = Undefined \/ v = <<>>

Cell(row, i) == IF i >= 0 /\ i < Len(row) THEN row[i + 1] ELSE Undefined

UpperChars == <<"A","B","C","D","E","F","G","H","I","J","K","L","M",
                "N","O","P","Q","R","S","T","U","V","W","X","Y","Z">>

LowerChars == <<"a","b","c","d","e","f","g","h","i","j","k","l","m",
                "n","o","p","q","r","s","t","u","v","w","x","y","z">>

LowerMap ==
  [c \in {UpperChars[i] : i \in 1..Len(UpperChars)} |->
     LowerChars[CHOOSE i \in 1..Len(UpperChars) : UpperChars[i] = c]]

LowerChar(c) == IF c \in DOMAIN LowerMap THEN LowerMap[c] ELSE c

ToLowerCase(s) == [i \in 1..Len(s) |-> LowerChar(s[i])]

Includes(s, sub) ==
  \E i \in 0..(Len(s) - Len(sub)) : SubSeq(s, i + 1, i + Len(sub)) = sub

RECURSIVE Split(_, _)
Split(s, sep) ==
  IF \E i \in 1..Len(s) : s[i] = sep
  THEN LET i == CHOOSE k \in 1..Len(s) :
                  s[k] = sep /\ \A j \in 1..(k - 1) : s[j] # sep
       IN  <<SubSeq(s, 1, i - 1)>> \o Split(SubSeq(s, i + 1, Len(s)), sep)
  ELSE <<s>>

Digits == <<"0","1","2","3","4","5","6","7","8","9">>

IsDigit(c) == \E i \in 1..Len(Digits) : Digits[i] = c

DigitValue(c) == (CHOOSE i \in 1..Len(Digits) : Digits[i] = c) - 1

AllDigits(s) == Len(s) > 0 /\ \A i \in 1..Len(s) : IsDigit(s[i])

RECURSIVE NumberOf(_)
NumberOf(s) ==
  IF Len(s) = 0 THEN 0
  ELSE 10 * NumberOf(SubSeq(s, 1, Len(s) - 1)) + DigitValue(s[Len(s)])

\* isNaN(parseInt(part)): parseInt skips leading blanks and one sign, then
\* needs a digit.
RECURSIVE ParseIntIsNaN(_)
ParseIntIsNaN(s) ==
  IF Len(s) = 0 THEN TRUE
  ELSE IF s[1] = " " THEN ParseIntIsNaN(Tail(s))
  ELSE IF s[1] \in {"+", "-"} THEN ~(Len(s) > 1 /\ IsDigit(s[2]))
  ELSE ~IsDigit(s[1])

RECURSIVE Concat(_)
Concat(ss) == IF Len(ss) = 0 THEN <<>> ELSE Head(ss) \o Concat(Tail(ss))

\* `${a}/${b}/${c}`
Slashed(a, b, c) == a \o <<"/">> \o b \o <<"/">> \o c

(***************************************************************************)
(* The calendar: Date objects.                                             *)
(***************************************************************************)
IsLeap(y) == (y % 4 = 0 /\ y % 100 # 0) \/ y % 400 = 0

\* new Date(year, month + 1, 0).getDate(), month zero-based
DaysInMonth(month, year) ==
  IF month = 1 THEN (IF IsLeap(year) THEN 29 ELSE 28)
  ELSE IF month \in {3, 5, 8, 10} THEN 30 ELSE 31

\* the days of the year before the first of a month, month zero-based
DaysBeforeMonth(month, year) ==
  <<0, 31, 59, 90, 120, 151, 181, 212, 243, 273, 304, 334>>[month + 1]
    + (IF month > 1 /\ IsLeap(year) THEN 1 ELSE 0)

\* new Date(year, month, day).getDay(): 0 is Sunday. 1 January of year 1 of
\* the proleptic Gregorian calendar is a Monday.
DayOfWeek(year, month, day) ==
  LET y == year - 1
      n == 365 * y + (y \div 4) - (y \div 100) + (y \div 400)
             + DaysBeforeMonth(month, year) + day
  IN  n % 7

InvalidDate == [valid |-> FALSE, year |-> 0, month |-> 0, day |-> 0]

\* The Date of a year, a month 1..12 and a day 1..31 as the engine's string
\* parser composes it: a month or day out of these ranges gives an Invalid
\* Date, a day past the end of the month runs over into the next month.
ComposeDate(y, m, d) ==
  IF m < 1 \/ m > 12 \/ d < 1 \/ d > 31 THEN InvalidDate
  ELSE IF d <= DaysInMonth(m - 1, y)
       THEN [valid |-> TRUE, year |-> y, month |-> m - 1, day |-> d]
  ELSE IF m = 12
       THEN [valid |-> TRUE, year |-> y + 1, month |-> 0,
             day |-> d - DaysInMonth(m - 1, y)]
  ELSE [valid |-> TRUE, year |-> y, month |-> m,
        day |-> d - DaysInMonth(m - 1, y)]

\* new Date(text) on the texts the sheets of this model hold: three numeric
\* parts with slashes are month/day/year (year/month/day when the first part
\* has more than two digits), yyyy-mm-dd is read as such, text without any
\* digit is an Invalid Date.
NewDate(str) ==
  LET sl == Split(str, "/")
      da == Split(str, "-")
  IN  IF Len(sl) = 3 /\ \A i \in 1..3 : AllDigits(sl[i])
      THEN IF Len(sl[1]) > 2
           THEN ComposeDate(NumberOf(sl[1]), NumberOf(sl[2]), NumberOf(sl[3]))
           ELSE IF Len(sl[3]) = 4
                THEN ComposeDate(NumberOf(sl[3]), NumberOf(sl[1]), NumberOf(sl[2]))
                ELSE InvalidDate
      ELSE IF /\ Len(da) = 3
              /\ \A i \in 1..3 : AllDigits(da[i])
              /\ Len(da[1]) = 4 /\ Len(da[2]) = 2 /\ Len(da[3]) = 2
           THEN ComposeDate(NumberOf(da[1]), NumberOf(da[2]), NumberOf(da[3]))
           ELSE InvalidDate

(***************************************************************************)
(* Keywords the code searches for, and the texts it emits.                 *)
(***************************************************************************)
K_roll == <<"r","o","l","l">>
K_admission == <<"a","d","m","i","s","s","i","o","n">>
K_id == <<"i","d">>
K_name == <<"n","a","m","e">>
K_father == <<"f","a","t","h","e","r">>
K_mother == <<"m","o","t","h","e","r">>
K_class == <<"c","l","a","s","s">>
K_dob == <<"d","o","b">>
K_birth == <<"b","i","r","t","h">>
K_date == <<"d","a","t","e">>
K_status == <<"s","t","a","t","u","s">>
K_present == <<"p","r","e","s","e","n","t">>
K_absent == <<"a","b","s","e","n","t">>
K_time == <<"t","i","m","e">>
K_late == <<"l","a","t","e">>
K_delay == <<"d","e","l","a","y">>
K_p == <<"p">>
K_one == <<"1">>
NA == <<"N","/","A">>
SchoolName == <<"K","e","n","d","r","i","y","a"," ",
                "V","i","d","y","a","l","a","y","a">>

(***************************************************************************)
(* Header resolution: findIndex with a predicate on the header text.       *)
(***************************************************************************)
IsRollHeader(h) ==
  \/ Includes(ToLowerCase(h), K_roll)
  \/ Includes(ToLowerCase(h), K_admission)
  \/ Includes(ToLowerCase(h), K_id)

\* the wide attendance code guards each test with the header's truthiness
IsRollHeaderGuarded(h) ==
  \/ (~Falsy(h) /\ Includes(ToLowerCase(h), K_roll))
  \/ (~Falsy(h) /\ Includes(ToLowerCase(h), K_admission))
  \/ (~Falsy(h) /\ Includes(ToLowerCase(h), K_id))

IsNameHeader(h) ==
  /\ Includes(ToLowerCase(h), K_name)
  /\ ~Includes(ToLowerCase(h), K_father)
  /\ ~Includes(ToLowerCase(h), K_mother)

IsClassHeader(h) == Includes(ToLowerCase(h), K_class)

IsDobHeader(h) ==
  Includes(ToLowerCase(h), K_dob) \/ Includes(ToLowerCase(h), K_birth)

IsFatherHeader(h) == Includes(ToLowerCase(h), K_father)

IsMotherHeader(h) == Includes(ToLowerCase(h), K_mother)

IsDateHeader(h) == Includes(ToLowerCase(h), K_date)

IsStatusHeader(h) ==
  \/ Includes(ToLowerCase(h), K_status)
  \/ Includes(ToLowerCase(h), K_present)
  \/ Includes(ToLowerCase(h), K_absent)

IsTimeHeader(h) ==
  Includes(ToLowerCase(h), K_time) \/ Includes(ToLowerCase(h), K_late)

\* the predicate passed to findIndex, by name
Holds(pred, h) ==
  CASE pred = "IsRollHeader" -> IsRollHeader(h)
    [] pred = "IsRollHeaderGuarded" -> IsRollHeaderGuarded(h)
    [] pred = "IsNameHeader" -> IsNameHeader(h)
    [] pred = "IsClassHeader" -> IsClassHeader(h)
    [] pred = "IsDobHeader" -> IsDobHeader(h)
    [] pred = "IsFatherHeader" -> IsFatherHeader(h)
    [] pred = "IsMotherHeader" -> IsMotherHeader(h)
    [] pred = "IsDateHeader" -> IsDateHeader(h)
    [] pred = "IsStatusHeader" -> IsStatusHeader(h)
    [] pred = "IsTimeHeader" -> IsTimeHeader(h)

\* headers.findIndex(pred): the first index (zero-based) or -1
FindIndex(headers, pred) ==
  IF \E i \in 1..Len(headers) : Holds(pred, headers[i])
  THEN (CHOOSE i \in 1..Len(headers) :
          Holds(pred, headers[i])
          /\ \A j \in 1..(i - 1) : ~Holds(pred, headers[j])) - 1
  ELSE -1

\* rows.find(row => row[rollIndex] === rollNumber): the first such row of
\* the whole range, or undefined
FindRow(rows, rollIndex, rollNumber) ==
  IF \E i \in 1..Len(rows) : Cell(rows[i], rollIndex) = rollNumber
  THEN rows[CHOOSE i \in 1..Len(rows) :
              /\ Cell(rows[i], rollIndex) = rollNumber
              /\ \A j \in 1..(i - 1) : Cell(rows[j], rollIndex) # rollNumber]
  ELSE Undefined

\* rows.filter(row => row[rollIndex] === rollNumber)
FilterRows(rows, rollIndex, rollNumber) ==
  SelectSeq(rows, LAMBDA row : Cell(row, rollIndex) = rollNumber)

\* value || 'N/A'
OrNA(v) == IF Falsy(v) THEN NA ELSE v

(***************************************************************************)
(* Responses: res.status(code).json(body).                                 *)
(***************************************************************************)
Fail(code, msg) ==
  [status |-> code, body |-> [success |-> FALSE, message |-> msg]]

\* Caught putting the text under `message`, as the 4xx answers do
Caught_AsMessage(msg) ==
  [status |-> 500, body |-> [success |-> FALSE, message |-> msg]]

\* the catch block of every handler
Caught(msg) ==
  [status |-> 500, body |-> [success |-> FALSE, error |-> msg]]

Ok(data) == [status |-> 200, body |-> [success |-> TRUE, data |-> data]]

\* EmptyRange testing length < 1: a header-only range passes
EmptyRange_OffByOne(values) == ~values.present \/ Len(values.rows) < 1

\* a fetched range: present is false when response.data.values is absent
EmptyRange(values) == ~values.present \/ Len(values.rows) <= 1

(***************************************************************************)
(* GET /api/student/:rollNumber, the same code in both variants; its       *)
(* steps are also the first half of the combined endpoint.                 *)
(***************************************************************************)
MapStudent(headers, studentRow) ==
  [name       |-> OrNA(Cell(studentRow, FindIndex(headers, "IsNameHeader"))),
   class      |-> OrNA(Cell(studentRow, FindIndex(headers, "IsClassHeader"))),
   school     |-> SchoolName,
   dob        |-> OrNA(Cell(studentRow, FindIndex(headers, "IsDobHeader"))),
   fatherName |-> OrNA(Cell(studentRow, FindIndex(headers, "IsFatherHeader"))),
   motherName |-> OrNA(Cell(studentRow, FindIndex(headers, "IsMotherHeader")))]

\* StudentPart without the !studentRow check: reading a cell of the
\* undefined row raises and the catch block answers
StudentPart_NoNotFoundCheck(values, rollNumber) ==
  IF EmptyRange(values)
  THEN [early |-> TRUE,
        response |-> Fail(404, "No student data found in the sheet")]
  ELSE LET headers == values.rows[1]
           rollIndex == FindIndex(headers, "IsRollHeader")
           studentRow == FindRow(values.rows, rollIndex, rollNumber)
       IN  IF rollIndex = -1
           THEN [early |-> TRUE,
                 response |-> Fail(400, "Roll Number column not found")]
           ELSE IF studentRow = Undefined
           THEN [early |-> TRUE,
                 response |-> Caught("Cannot read properties of undefined")]
           ELSE [early |-> FALSE, student |-> MapStudent(headers, studentRow)]

\* StudentPart looking the student up before testing rollIndex
StudentPart_LookupFirst(values, rollNumber) ==
  IF EmptyRange(values)
  THEN [early |-> TRUE,
        response |-> Fail(404, "No student data found in the sheet")]
  ELSE LET headers == values.rows[1]
           rollIndex == FindIndex(headers, "IsRollHeader")
           studentRow == FindRow(values.rows, rollIndex, rollNumber)
       IN  IF studentRow = Undefined
           THEN [early |-> TRUE, response |-> Fail(404, "Student not found")]
           ELSE IF rollIndex = -1
           THEN [early |-> TRUE,
                 response |-> Fail(400, "Roll Number column not found")]
           ELSE [early |-> FALSE, student |-> MapStudent(headers, studentRow)]

\* The outcome of the student part: either an early response or the student.
StudentPart(values, rollNumber) ==
  IF EmptyRange(values)
  THEN [early |-> TRUE,
        response |-> Fail(404, "No student data found in the sheet")]
  ELSE LET headers == values.rows[1]
           rollIndex == FindIndex(headers, "IsRollHeader")
           studentRow == FindRow(values.rows, rollIndex, rollNumber)
       IN  IF rollIndex = -1
           THEN [early |-> TRUE,
                 response |-> Fail(400, "Roll Number column not found")]
           ELSE IF studentRow = Undefined
           THEN [early |-> TRUE, response |-> Fail(404, "Student not found")]
           ELSE [early |-> FALSE, student |-> MapStudent(headers, studentRow)]

StudentResponse(values, rollNumber) ==
  LET part == StudentPart(values, rollNumber)
  IN  IF part.early THEN part.response ELSE Ok(part.student)

(***************************************************************************)
(* Date parsing of an attendance entry.  The outcome of one entry is       *)
(*   skip   - the forEach callback returns without recording,              *)
(*   throw  - the callback raises (the handler's catch answers 500),       *)
(*   record - a valid date, with its classification.                       *)
(***************************************************************************)
\* SlashDate handing every text to new Date as it is, month first
SlashDate_MonthFirst(str, parts) == NewDate(str)

\* the slash branch shared by the tall inline parse and parseDate; parts has
\* three elements, parts[1] is the code's parts[0]
SlashDate(str, parts) ==
  IF Len(parts[1]) <= 2 /\ Len(parts[2]) <= 2
  THEN NewDate(Slashed(parts[2], parts[1], parts[3]))
  ELSE NewDate(str)

\* tall variant: the inline parse.  A slash text that does not split into
\* three parts leaves `date` undefined, and date.getTime() raises.
TallParse(dateStr) ==
  IF Falsy(dateStr) THEN [kind |-> "skip"]
  ELSE IF Includes(dateStr, <<"/">>)
       THEN LET parts == Split(dateStr, "/")
            IN  IF Len(parts) = 3
                THEN LET date == SlashDate(dateStr, parts)
                     IN  IF date.valid THEN [kind |-> "record", date |-> date]
                         ELSE [kind |-> "skip"]
                ELSE [kind |-> "throw"]
  ELSE IF Includes(dateStr, <<"-">>)
       THEN LET date == NewDate(dateStr)
            IN  IF date.valid THEN [kind |-> "record", date |-> date]
                ELSE [kind |-> "skip"]
  ELSE [kind |-> "skip"]

\* wide variant: parseDate; null is the Invalid Date here, the caller skips
\* both alike
parseDate(dateStr) ==
  IF Falsy(dateStr) THEN InvalidDate
  ELSE IF Includes(dateStr, <<"/">>) /\ Len(Split(dateStr, "/")) = 3
       THEN SlashDate(dateStr, Split(dateStr, "/"))
  ELSE NewDate(dateStr)

WideParse(dateStr) ==
  IF Falsy(dateStr) THEN [kind |-> "skip"]
  ELSE LET date == parseDate(dateStr)
       IN  IF date.valid THEN [kind |-> "record", date |-> date]
           ELSE [kind |-> "skip"]

(***************************************************************************)
(* Status and time classification.                                         *)
(***************************************************************************)
\* IsPresent without the test for the letter p
IsPresent_WholeWord(statusValue) ==
  Includes(statusValue, K_present) \/ statusValue = K_one

\* statusValue is already lower-cased ('' for a missing cell)
IsPresent(statusValue) ==
  \/ Includes(statusValue, K_p)
  \/ Includes(statusValue, K_present)
  \/ statusValue = K_one

\* TimeStatus marking an entry late only when it is present
TimeStatus_LateOnlyIfPresent(timeValue, isPresent) ==
  IF isPresent
  THEN IF ~Falsy(timeValue)
          /\ (\/ Includes(ToLowerCase(timeValue), K_late)
              \/ Includes(ToLowerCase(timeValue), K_delay))
       THEN "late" ELSE "on-time"
  ELSE ""

\* timeValue: the time cell as read, Undefined or '' when there is none
TimeStatus(timeValue, isPresent) ==
  IF ~Falsy(timeValue)
  THEN IF \/ Includes(ToLowerCase(timeValue), K_late)
          \/ Includes(ToLowerCase(timeValue), K_delay)
       THEN "late"
       ELSE IF isPresent THEN "on-time" ELSE ""
  ELSE IF isPresent THEN "on-time" ELSE ""

LowerOrEmpty(cell) == IF Falsy(cell) THEN <<>> ELSE ToLowerCase(cell)

\* one row of the tall sheet as an entry
TallEntry(row, dateIndex, statusIndex, timeIndex) ==
  LET parsed == TallParse(Cell(row, dateIndex))
      isPresent == IsPresent(LowerOrEmpty(Cell(row, statusIndex)))
      timeValue == IF timeIndex # -1 THEN Cell(row, timeIndex) ELSE Undefined
  IN  IF parsed.kind = "record"
      THEN [kind |-> "record", date |-> parsed.date, isPresent |-> isPresent,
            timeStatus |-> TimeStatus(timeValue, isPresent)]
      ELSE parsed

\* one column group of the wide sheet as an entry
WideEntry(headerRow, studentRow, group) ==
  LET parsed == WideParse(Cell(headerRow, group.dateCol))
      isPresent == IsPresent(LowerOrEmpty(Cell(studentRow, group.statusCol)))
      timeValue == IF group.timeCol < Len(studentRow)
                   THEN Cell(studentRow, group.timeCol) ELSE <<>>
  IN  IF parsed.kind = "record"
      THEN [kind |-> "record", date |-> parsed.date, isPresent |-> isPresent,
            timeStatus |-> TimeStatus(timeValue, isPresent)]
      ELSE parsed

(***************************************************************************)
(* The aggregation: attendanceByMonth, totalSchoolDays, totalPresent.      *)
(* attendanceByMonth is kept as the sequence of its buckets in insertion   *)
(* order, which is the order Object.values returns them in.                *)
(***************************************************************************)
NumberZero == [type |-> "number", value |-> 0]

NewBucket(month, year) ==
  [month |-> month, year |-> year, totalDays |-> 0, daysPresent |-> 0,
   daysAbsent |-> 0, percentage |-> NumberZero, days |-> <<>>]

EmptyAcc == [months |-> <<>>, totalSchoolDays |-> 0, totalPresent |-> 0]

HasBucket(months, month, year) ==
  \E i \in 1..Len(months) : months[i].month = month /\ months[i].year = year

\* RecordInBucket with totalDays incremented only in the present branch
RecordInBucket_TotalOnlyIfPresent(b, e) ==
  [b EXCEPT !.days = Append(@, [day |-> e.date.day, isSchoolDay |-> TRUE,
                                status |-> IF e.isPresent THEN "present"
                                           ELSE "absent",
                                timeStatus |-> e.timeStatus]),
            !.totalDays = IF e.isPresent THEN @ + 1 ELSE @,
            !.daysPresent = IF e.isPresent THEN @ + 1 ELSE @,
            !.daysAbsent = IF e.isPresent THEN @ ELSE @ + 1]

\* push the day record and update the monthly counters
RecordInBucket(b, e) ==
  [b EXCEPT !.days = Append(@, [day |-> e.date.day, isSchoolDay |-> TRUE,
                                status |-> IF e.isPresent THEN "present"
                                           ELSE "absent",
                                timeStatus |-> e.timeStatus]),
            !.totalDays = @ + 1,
            !.daysPresent = IF e.isPresent THEN @ + 1 ELSE @,
            !.daysAbsent = IF e.isPresent THEN @ ELSE @ + 1]

\* AddEntry with the yearly counters updated only when a bucket is created
AddEntry_YearlyOnNewBucket(acc, e) ==
  LET isNew == ~HasBucket(acc.months, e.date.month, e.date.year)
      months == IF isNew
                THEN Append(acc.months, NewBucket(e.date.month, e.date.year))
                ELSE acc.months
  IN  [months |-> [i \in 1..Len(months) |->
                     IF /\ months[i].month = e.date.month
                        /\ months[i].year = e.date.year
                     THEN [months[i] EXCEPT
                             !.days = Append(@, [day |-> e.date.day,
                                        isSchoolDay |-> TRUE,
                                        status |-> IF e.isPresent
                                                   THEN "present"
                                                   ELSE "absent",
                                        timeStatus |-> e.timeStatus]),
                             !.totalDays = @ + 1,
                             !.daysPresent = IF e.isPresent THEN @ + 1 ELSE @,
                             !.daysAbsent = IF e.isPresent THEN @ ELSE @ + 1]
                     ELSE months[i]],
       totalSchoolDays |-> IF isNew THEN acc.totalSchoolDays + 1
                           ELSE acc.totalSchoolDays,
       totalPresent |-> IF isNew /\ e.isPresent THEN acc.totalPresent + 1
                        ELSE acc.totalPresent]

\* the forEach callback on an entry that is recorded
AddEntry(acc, e) ==
  LET months == IF HasBucket(acc.months, e.date.month, e.date.year)
                THEN acc.months
                ELSE Append(acc.months, NewBucket(e.date.month, e.date.year))
  IN  [months |-> [i \in 1..Len(months) |->
                     IF /\ months[i].month = e.date.month
                        /\ months[i].year = e.date.year
                     THEN RecordInBucket(months[i], e)
                     ELSE months[i]],
       totalSchoolDays |-> acc.totalSchoolDays + 1,
       totalPresent |-> IF e.isPresent THEN acc.totalPresent + 1
                        ELSE acc.totalPresent]

RECURSIVE Accumulate(_, _)
Accumulate(acc, entries) ==
  IF Len(entries) = 0 THEN acc
  ELSE Accumulate(IF Head(entries).kind = "record"
                  THEN AddEntry(acc, Head(entries)) ELSE acc,
                  Tail(entries))

Throws(entries) == \E i \in 1..Len(entries) : entries[i].kind = "throw"

(***************************************************************************)
(* The post-pass: percentages, gap filling, sorting, yearToDate.           *)
(***************************************************************************)
RECURSIVE NumberText(_)
NumberText(n) ==
  IF n < 10 THEN <<Digits[n + 1]>>
  ELSE NumberText(n \div 10) \o <<Digits[(n % 10) + 1]>>

\* ToFixed1 cutting the digits after the first decimal instead of rounding
ToFixed1_Truncates(present, total) ==
  LET tenths == (1000 * present) \div total
  IN  [type |-> "string",
       text |-> NumberText(tenths \div 10) \o <<".">> \o NumberText(tenths % 10)]

\* ((present / total) * 100).toFixed(1), total > 0: the quotient rounded to
\* the nearest tenth (half up), written with one decimal.  For the totals of
\* this model no quotient lies on a half of a tenth.
ToFixed1(present, total) ==
  LET tenths == (2000 * present + total) \div (2 * total)
  IN  [type |-> "string",
       text |-> NumberText(tenths \div 10) \o <<".">> \o NumberText(tenths % 10)]

\* months.map: the percentage is set only when totalDays > 0
WithPercentage(b) ==
  IF b.totalDays > 0
  THEN [b EXCEPT !.percentage = ToFixed1(b.daysPresent, b.totalDays)]
  ELSE b

\* existingDays[day]
DayExists(days, day) == \E i \in 1..Len(days) : days[i].day = day

\* TallGapDay flagging Sundays only, as the wide variant does
TallGapDay_SundayOnly(year, month, day) ==
  [day |-> day, isSchoolDay |-> FALSE, status |-> "no-school",
   timeStatus |-> "",
   isWeekend |-> DayOfWeek(year, month, day) = 0]

\* the record pushed for a missing day, tall variant
TallGapDay(year, month, day) ==
  [day |-> day, isSchoolDay |-> FALSE, status |-> "no-school",
   timeStatus |-> "",
   isWeekend |-> DayOfWeek(year, month, day) \in {0, 6}]

\* the record pushed for a missing day, wide variant
WideGapDay(year, month, day) ==
  LET isSunday == DayOfWeek(year, month, day) = 0
  IN  [day |-> day, isSchoolDay |-> FALSE, status |-> "no-school",
       timeStatus |-> "",
       isWeekend |-> isSunday,
       isSunday |-> isSunday,
       isHoliday |-> ~isSunday]

GapDay(v, year, month, day) ==
  IF v = "tall" THEN TallGapDay(year, month, day)
  ELSE WideGapDay(year, month, day)

\* for (day = 1; day <= daysInMonth; day++) if (!existingDays[day]) push
RECURSIVE MissingDays(_, _, _, _)
MissingDays(v, b, day, daysInMonth) ==
  IF day > daysInMonth THEN <<>>
  ELSE (IF DayExists(b.days, day) THEN <<>>
        ELSE <<GapDay(v, b.year, b.month, day)>>)
       \o MissingDays(v, b, day + 1, daysInMonth)

\* days.sort((a, b) => a.day - b.day): a stable sort on the day number
RECURSIVE SortDaysFrom(_, _)
SortDaysFrom(days, day) ==
  IF day > 31 THEN <<>>
  ELSE SelectSeq(days, LAMBDA r : r.day = day) \o SortDaysFrom(days, day + 1)

\* SortDays leaving the records as they were pushed
SortDays_AsPushed(days) == days

SortDays(days) == SortDaysFrom(days, 1)

\* months.forEach: fill in the missing days, then sort
FillMonth(v, b) ==
  [b EXCEPT !.days =
     SortDays(@ \o MissingDays(v, b, 1, DaysInMonth(b.month, b.year)))]

YearToDate(acc) ==
  [totalDays |-> acc.totalSchoolDays,
   daysPresent |-> acc.totalPresent,
   daysAbsent |-> acc.totalSchoolDays - acc.totalPresent,
   percentage |-> IF acc.totalSchoolDays > 0
                  THEN ToFixed1(acc.totalPresent, acc.totalSchoolDays)
                  ELSE NumberZero]

\* the attendance object built from the entries of one student
BuildAttendance(v, entries) ==
  LET acc == Accumulate(EmptyAcc, entries)
  IN  [yearToDate |-> YearToDate(acc),
       months |-> [i \in 1..Len(acc.months) |->
                     FillMonth(v, WithPercentage(acc.months[i]))]]

\* the default attendance object of the combined endpoint
DefaultAttendance ==
  [yearToDate |-> [totalDays |-> 0, daysPresent |-> 0, daysAbsent |-> 0,
                   percentage |-> NumberZero],
   months |-> <<>>]

TypeErrorMessage == "Cannot read properties of undefined (reading 'getTime')"

(***************************************************************************)
(* Wide variant: date-like headers and the column group detector.          *)
(***************************************************************************)
AllPartsNumeric(parts) == \A i \in 1..Len(parts) : ~ParseIntIsNaN(parts[i])

isDateLike(str) ==
  IF Falsy(str) THEN FALSE
  ELSE IF Includes(ToLowerCase(str), K_date) THEN TRUE
  ELSE IF Includes(str, <<"/">>) /\ Len(Split(str, "/")) = 3
       THEN AllPartsNumeric(Split(str, "/"))
  ELSE IF Includes(str, <<"-">>) /\ Len(Split(str, "-")) = 3
       THEN AllPartsNumeric(Split(str, "-"))
  ELSE NewDate(str).valid

IsDateColumn(headerRow, i) ==
  \/ Includes(LowerOrEmpty(Cell(headerRow, i)), K_date)
  \/ isDateLike(Cell(headerRow, i))

\* the status column of the date column i: the first of the next three
\* columns named like a status, else the next column, else -1
StatusColOf(headerRow, i) ==
  LET upto == IF i + 4 < Len(headerRow) THEN i + 4 ELSE Len(headerRow)
      named == {j \in (i + 1)..(upto - 1) :
                  IsStatusHeader(LowerOrEmpty(Cell(headerRow, j)))}
  IN  IF named # {} THEN CHOOSE j \in named : \A k \in named : j <= k
      ELSE IF i + 1 < Len(headerRow) THEN i + 1
      ELSE -1

\* the time column after the status column: the first of the next two
\* columns named like a time, else the next column, else -1
TimeColOf(headerRow, statusCol) ==
  LET upto == IF statusCol + 3 < Len(headerRow) THEN statusCol + 3
              ELSE Len(headerRow)
      named == {j \in (statusCol + 1)..(upto - 1) :
                  IsTimeHeader(LowerOrEmpty(Cell(headerRow, j)))}
  IN  IF named # {} THEN CHOOSE j \in named : \A k \in named : j <= k
      ELSE IF statusCol + 1 < Len(headerRow) THEN statusCol + 1
      ELSE -1

\* DetectFrom without the jump behind the group: the scan goes on at the
\* column after the date column
RECURSIVE DetectFrom_NoSkip(_, _)
DetectFrom_NoSkip(headerRow, i) ==
  IF i >= Len(headerRow) THEN <<>>
  ELSE IF IsDateColumn(headerRow, i)
       THEN LET statusCol == StatusColOf(headerRow, i)
                timeCol == IF statusCol # -1
                           THEN TimeColOf(headerRow, statusCol) ELSE -1
            IN  IF statusCol # -1
                THEN <<[dateCol |-> i, statusCol |-> statusCol,
                        timeCol |-> IF timeCol # -1 THEN timeCol
                                    ELSE statusCol + 1]>>
                     \o DetectFrom_NoSkip(headerRow, i + 1)
                ELSE DetectFrom_NoSkip(headerRow, i + 1)
  ELSE DetectFrom_NoSkip(headerRow, i + 1)

\* the for loop over the header columns from i on
RECURSIVE DetectFrom(_, _)
DetectFrom(headerRow, i) ==
  IF i >= Len(headerRow) THEN <<>>
  ELSE IF IsDateColumn(headerRow, i)
       THEN LET statusCol == StatusColOf(headerRow, i)
                timeCol == IF statusCol # -1
                           THEN TimeColOf(headerRow, statusCol) ELSE -1
            IN  IF statusCol # -1
                THEN <<[dateCol |-> i, statusCol |-> statusCol,
                        timeCol |-> IF timeCol # -1 THEN timeCol
                                    ELSE statusCol + 1]>>
                     \o DetectFrom(headerRow,
                                   (IF timeCol # -1 THEN timeCol
                                    ELSE statusCol) + 1)
                ELSE DetectFrom(headerRow, i + 1)
  ELSE DetectFrom(headerRow, i + 1)

DateColumnGroups(headerRow, rollIndex) == DetectFrom(headerRow, rollIndex + 1)

(***************************************************************************)
(* GET /api/student/:rollNumber/attendance                                 *)
(***************************************************************************)
\* the entries of the rows of one student, tall variant
TallEntries(rows, dateIndex, statusIndex, timeIndex) ==
  [i \in 1..Len(rows) |-> TallEntry(rows[i], dateIndex, statusIndex, timeIndex)]

\* the entries of the column groups of one student row, wide variant
WideEntries(headerRow, studentRow, groups) ==
  [i \in 1..Len(groups) |-> WideEntry(headerRow, studentRow, groups[i])]

\* the try block after the checks: the response of the aggregation
Aggregated(v, entries) ==
  IF Throws(entries) THEN Caught(TypeErrorMessage)
  ELSE Ok([attendance |-> BuildAttendance(v, entries)])

TallAttendanceResponse(values, rollNumber) ==
  IF EmptyRange(values)
  THEN Fail(404, "No attendance data found in the sheet")
  ELSE LET headers == values.rows[1]
           rollIndex == FindIndex(headers, "IsRollHeader")
           dateIndex == FindIndex(headers, "IsDateHeader")
           statusIndex == FindIndex(headers, "IsStatusHeader")
           timeIndex == FindIndex(headers, "IsTimeHeader")
           studentAttendanceRows ==
             FilterRows(values.rows, rollIndex, rollNumber)
       IN  IF rollIndex = -1 \/ dateIndex = -1 \/ statusIndex = -1
           THEN Fail(400, "Required attendance data columns not found")
           ELSE IF Len(studentAttendanceRows) = 0
           THEN Fail(404, "No attendance records found for this student")
           ELSE Aggregated("tall", TallEntries(studentAttendanceRows,
                                   dateIndex, statusIndex, timeIndex))

\* WideAttendanceResponse without the dateColumnGroups.length === 0 check
WideAttendanceResponse_NoGroupCheck(values, rollNumber) ==
  IF EmptyRange(values)
  THEN Fail(404, "No attendance data found in the sheet")
  ELSE LET headerRow == values.rows[1]
           rollIndex == FindIndex(headerRow, "IsRollHeaderGuarded")
           studentRow == FindRow(values.rows, rollIndex, rollNumber)
           dateColumnGroups == DateColumnGroups(headerRow, rollIndex)
       IN  IF rollIndex = -1
           THEN Fail(400, "Roll Number column not found")
           ELSE IF studentRow = Undefined
           THEN Fail(404, "No attendance records found for this student")
           ELSE Aggregated("wide",
                  WideEntries(headerRow, studentRow, dateColumnGroups))

WideAttendanceResponse(values, rollNumber) ==
  IF EmptyRange(values)
  THEN Fail(404, "No attendance data found in the sheet")
  ELSE LET headerRow == values.rows[1]
           rollIndex == FindIndex(headerRow, "IsRollHeaderGuarded")
           studentRow == FindRow(values.rows, rollIndex, rollNumber)
           dateColumnGroups == DateColumnGroups(headerRow, rollIndex)
       IN  IF rollIndex = -1
           THEN Fail(400, "Roll Number column not found")
           ELSE IF studentRow = Undefined
           THEN Fail(404, "No attendance records found for this student")
           ELSE IF Len(dateColumnGroups) = 0
           THEN Fail(400, "No date columns found in attendance sheet")
           ELSE Aggregated("wide",
                  WideEntries(headerRow, studentRow, dateColumnGroups))

AttendanceResponse(v, values, rollNumber) ==
  IF v = "tall" THEN TallAttendanceResponse(values, rollNumber)
  ELSE WideAttendanceResponse(values, rollNumber)

(***************************************************************************)
(* GET /api/student/:rollNumber/combined, after the student was found:     *)
(* the attendance part.  It starts from the default attendance object and  *)
(* replaces it when every guard passes.                                    *)
(***************************************************************************)
Combined(student, attendance) ==
  Ok([student |-> student, attendance |-> attendance])

\* TallCombinedResponse reading no time column
TallCombinedResponse_NoTimeColumn(student, values, rollNumber) ==
  IF EmptyRange(values) THEN Combined(student, DefaultAttendance)
  ELSE LET headers == values.rows[1]
           attendanceRollIndex == FindIndex(headers, "IsRollHeader")
           dateIndex == FindIndex(headers, "IsDateHeader")
           statusIndex == FindIndex(headers, "IsStatusHeader")
           studentAttendanceRows ==
             FilterRows(values.rows, attendanceRollIndex, rollNumber)
           entries == TallEntries(studentAttendanceRows,
                                  dateIndex, statusIndex, -1)
       IN  IF /\ attendanceRollIndex # -1 /\ dateIndex # -1
              /\ statusIndex # -1
              /\ Len(studentAttendanceRows) > 0
           THEN IF Throws(entries) THEN Caught(TypeErrorMessage)
                ELSE Combined(student, BuildAttendance("tall", entries))
           ELSE Combined(student, DefaultAttendance)

TallCombinedResponse(student, values, rollNumber) ==
  IF EmptyRange(values) THEN Combined(student, DefaultAttendance)
  ELSE LET headers == values.rows[1]
           attendanceRollIndex == FindIndex(headers, "IsRollHeader")
           dateIndex == FindIndex(headers, "IsDateHeader")
           statusIndex == FindIndex(headers, "IsStatusHeader")
           timeIndex == FindIndex(headers, "IsTimeHeader")
           studentAttendanceRows ==
             FilterRows(values.rows, attendanceRollIndex, rollNumber)
           entries == TallEntries(studentAttendanceRows,
                                  dateIndex, statusIndex, timeIndex)
       IN  IF /\ attendanceRollIndex # -1 /\ dateIndex # -1
              /\ statusIndex # -1
              /\ Len(studentAttendanceRows) > 0
           THEN IF Throws(entries) THEN Caught(TypeErrorMessage)
                ELSE Combined(student, BuildAttendance("tall", entries))
           ELSE Combined(student, DefaultAttendance)

\* WideCombinedResponse answering 400 on zero column groups, as the
\* attendance endpoint does
WideCombinedResponse_RejectsNoGroups(student, values, rollNumber) ==
  IF EmptyRange(values) THEN Combined(student, DefaultAttendance)
  ELSE LET headerRow == values.rows[1]
           attendanceRollIndex == FindIndex(headerRow, "IsRollHeaderGuarded")
           studentAttendanceRow ==
             FindRow(values.rows, attendanceRollIndex, rollNumber)
           groups == DateColumnGroups(headerRow, attendanceRollIndex)
       IN  IF attendanceRollIndex # -1 /\ studentAttendanceRow # Undefined
           THEN IF Len(groups) = 0
                THEN Fail(400, "No date columns found in attendance sheet")
                ELSE Combined(student, BuildAttendance("wide",
                       WideEntries(headerRow, studentAttendanceRow, groups)))
           ELSE Combined(student, DefaultAttendance)

WideCombinedResponse(student, values, rollNumber) ==
  IF EmptyRange(values) THEN Combined(student, DefaultAttendance)
  ELSE LET headerRow == values.rows[1]
           attendanceRollIndex == FindIndex(headerRow, "IsRollHeaderGuarded")
           studentAttendanceRow ==
             FindRow(values.rows, attendanceRollIndex, rollNumber)
           entries == WideEntries(headerRow, studentAttendanceRow,
                        DateColumnGroups(headerRow, attendanceRollIndex))
       IN  IF attendanceRollIndex # -1 /\ studentAttendanceRow # Undefined
           THEN Combined(student, BuildAttendance("wide", entries))
           ELSE Combined(student, DefaultAttendance)

CombinedResponse(v, student, values, rollNumber) ==
  IF v = "tall" THEN TallCombinedResponse(student, values, rollNumber)
  ELSE WideCombinedResponse(student, values, rollNumber)

(***************************************************************************)
(* The inputs: requested roll numbers and the contents of the two ranges.  *)
(***************************************************************************)
RollNumbers == {<<"1">>, <<"2">>, <<"R","o","l","l">>}

StudentHeaders ==
  {<<<<"R","o","l","l">>, <<"N","a","m","e">>, <<"C","l","a","s","s">>, <<"F","a","t","h","e","r">>>>,
   <<<<"N","a","m","e">>, <<"C","l","a","s","s">>>>}

StudentRows ==
  {<<<<"1">>, <<"A","s","h","a">>, <<"5","A">>, <<"O","m">>>>,
   <<<<"2">>, <<"R","a","v","i">>>>}

TallHeaders ==
  {<<<<"R","o","l","l">>, <<"D","a","t","e">>, <<"S","t","a","t","u","s">>, <<"T","i","m","e">>>>,
   <<<<"R","o","l","l">>, <<"D","a","t","e">>, <<"S","t","a","t","u","s">>>>}

TallHeadersLacking ==
  {<<<<"R","o","l","l">>, <<"S","t","a","t","u","s">>>>,
   <<<<"N","a","m","e">>, <<"D","a","t","e">>, <<"S","t","a","t","u","s">>>>,
   <<<<"R","o","l","l">>, <<"D","a","t","e">>>>}

TallRows ==
  {<<<<"1">>, <<"1","5","/","0","1","/","2","0","2","4">>, <<"P">>, <<>>>>,
   <<<<"1">>, <<"2","0","2","4","-","0","1","-","1","5">>, <<"A">>, <<"L","a","t","e">>>>,
   <<<<"1">>, <<"0","5","/","0","2","/","2","0","2","4">>, <<"P","r","e","s","e","n","t">>>>,
   <<<<"1">>, <<"1","5","/","0","1">>>>,
   <<<<"1">>, <<"n","o","t","-","a","-","d","a","t","e">>, <<"P">>, <<>>>>,
   <<<<"1">>, <<>>, <<"P">>, <<>>>>,
   <<<<"2">>, <<"3","1","/","0","1","/","2","0","2","4">>, <<"A">>, <<>>>>,
   <<<<"1">>, <<"0","1","/","1","5","/","2","0","2","4">>, <<"1">>, <<"9",":","0","0">>>>,
   <<<<"1">>, <<"2","0","2","4","/","0","1","/","1","6">>, <<"a","p","p","l","e">>, <<"d","e","l","a","y","e","d">>>>}

WideBlocks ==
  {<<<<"1","5","/","0","1","/","2","0","2","4">>, <<"S","t","a","t","u","s">>, <<"T","i","m","e">>>>,
   <<<<"0","5","/","0","2","/","2","0","2","4">>, <<"S","t","a","t","u","s">>>>,
   <<<<"D","a","t","e"," ","a","/","b">>, <<"S","t","a","t","u","s">>>>,
   <<<<"2","0","2","4","-","0","1","-","1","5">>>>}

WideRows ==
  {<<<<"1">>, <<>>, <<"P">>, <<>>, <<>>, <<"A">>, <<"L","a","t","e">>>>,
   <<<<"1">>, <<>>, <<"A">>>>,
   <<<<"2">>, <<>>, <<"P","r","e","s","e","n","t">>, <<"9",":","0","0">>, <<>>, <<"1">>>>}

\* the sequences over S of length at most n
SeqsUpTo(S, n) == UNION {[1..k -> S] : k \in 0..n}

Range(header, rowSeqs) ==
  {[present |-> TRUE, rows |-> <<header>> \o rs] : rs \in rowSeqs}

AbsentRange == [present |-> FALSE, rows |-> <<>>]

StudentRanges ==
  {AbsentRange}
    \cup UNION {Range(h, SeqsUpTo(StudentRows, MaxStudentRows)) :
                  h \in StudentHeaders}

\* a header that lacks a required column is answered before any row is read:
\* such headers come with at most one data row
TallRanges ==
  {AbsentRange}
    \cup UNION {Range(h, SeqsUpTo(TallRows, MaxAttRows)) : h \in TallHeaders}
    \cup UNION {Range(h, SeqsUpTo(TallRows, 1)) : h \in TallHeadersLacking}

WideHeaders ==
  {<<<<"R","o","l","l">>>> \o Concat(bs) : bs \in SeqsUpTo(WideBlocks, MaxBlocks)}
    \cup {<<<<"N","a","m","e">>>> \o b : b \in WideBlocks}

WideRanges ==
  {AbsentRange}
    \cup UNION {Range(h, SeqsUpTo(WideRows, MaxWideRows)) : h \in WideHeaders}

AttendanceRanges(v) == IF v = "tall" THEN TallRanges ELSE WideRanges

(***************************************************************************)
(* The requests.  A handler runs to completion between its awaits, so a    *)
(* request moves once per upstream call: the call returns a range or       *)
(* fails, and the handler runs up to its next await or its response.       *)
(***************************************************************************)
ReqIds == {"r1"}

NotFetched == [present |-> FALSE, rows |-> <<>>, fetched |-> FALSE]

Fetched(values) == "fetched" \notin DOMAIN values

NoStudent == [none |-> TRUE]

Idle ==
  [pc |-> "idle", endpoint |-> "none", rollNumber |-> <<>>,
   studentValues |-> NotFetched, attendanceValues |-> NotFetched,
   student |-> NoStudent, sent |-> <<>>]

Init ==
  /\ variant \in {"tall", "wide"}
  /\ reqs = [id \in ReqIds |-> Idle]

\* a request arrives; the handler issues its first upstream call
Request(id) ==
  /\ reqs[id].pc = "idle"
  /\ \E endpoint \in {"student", "attendance", "combined"},
        rollNumber \in RollNumbers :
       reqs' = [reqs EXCEPT ![id] =
         [@ EXCEPT !.pc = IF endpoint = "attendance" THEN "awaitAttendance"
                          ELSE "awaitStudents",
                   !.endpoint = endpoint,
                   !.rollNumber = rollNumber]]
  /\ UNCHANGED variant

\* student endpoint: the Students range arrives
StudentHandler(id) ==
  /\ reqs[id].pc = "awaitStudents"
  /\ reqs[id].endpoint = "student"
  /\ \E values \in StudentRanges :
       reqs' = [reqs EXCEPT ![id] =
         [@ EXCEPT !.pc = "done",
                   !.studentValues = values,
                   !.sent = Append(@, StudentResponse(values,
                                                      reqs[id].rollNumber))]]
  /\ UNCHANGED variant

\* attendance endpoint: the Attendance range arrives
AttendanceHandler(id) ==
  /\ reqs[id].pc = "awaitAttendance"
  /\ reqs[id].endpoint = "attendance"
  /\ \E values \in AttendanceRanges(variant) :
       reqs' = [reqs EXCEPT ![id] =
         [@ EXCEPT !.pc = "done",
                   !.attendanceValues = values,
                   !.sent = Append(@, AttendanceResponse(variant, values,
                                                         reqs[id].rollNumber))]]
  /\ UNCHANGED variant

\* CombinedStudentStep without the return after an early answer
CombinedStudentStep_NoReturn(id) ==
  /\ reqs[id].pc = "awaitStudents"
  /\ reqs[id].endpoint = "combined"
  /\ \E values \in StudentRanges :
       LET part == StudentPart(values, reqs[id].rollNumber)
       IN  reqs' = [reqs EXCEPT ![id] =
             IF part.early
             THEN [@ EXCEPT !.pc = "awaitAttendance",
                            !.studentValues = values,
                            !.sent = Append(@, part.response)]
             ELSE [@ EXCEPT !.pc = "awaitAttendance",
                            !.studentValues = values,
                            !.student = part.student]]
  /\ UNCHANGED variant

\* combined endpoint: the Students range arrives; the handler answers early
\* or goes on to fetch the Attendance range
CombinedStudentStep(id) ==
  /\ reqs[id].pc = "awaitStudents"
  /\ reqs[id].endpoint = "combined"
  /\ \E values \in StudentRanges :
       LET part == StudentPart(values, reqs[id].rollNumber)
       IN  reqs' = [reqs EXCEPT ![id] =
             IF part.early
             THEN [@ EXCEPT !.pc = "done",
                            !.studentValues = values,
                            !.sent = Append(@, part.response)]
             ELSE [@ EXCEPT !.pc = "awaitAttendance",
                            !.studentValues = values,
                            !.student = part.student]]
  /\ UNCHANGED variant

\* combined endpoint: the Attendance range arrives
CombinedAttendanceStep(id) ==
  /\ reqs[id].pc = "awaitAttendance"
  /\ reqs[id].endpoint = "combined"
  /\ \E values \in AttendanceRanges(variant) :
       reqs' = [reqs EXCEPT ![id] =
         [@ EXCEPT !.pc = "done",
                   !.attendanceValues = values,
                   !.sent = Append(@, CombinedResponse(variant,
                              reqs[id].student, values, reqs[id].rollNumber))]]
  /\ UNCHANGED variant

UpstreamErrorMessage == "upstream request failed"

\* the awaited upstream call rejects: the catch block answers
UpstreamFails(id) ==
  /\ reqs[id].pc \in {"awaitStudents", "awaitAttendance"}
  /\ reqs' = [reqs EXCEPT ![id] =
       [@ EXCEPT !.pc = "done",
                 !.sent = Append(@, Caught(UpstreamErrorMessage))]]
  /\ UNCHANGED variant

Next ==
  \E id \in ReqIds :
    \/ Request(id)
    \/ StudentHandler(id)
    \/ AttendanceHandler(id)
    \/ CombinedStudentStep(id)
    \/ CombinedAttendanceStep(id)
    \/ UpstreamFails(id)

Spec == Init /\ [][Next]_vars

(***************************************************************************)
(* The application when every upstream call it issues returns or throws:   *)
(* the event loop runs the continuation of a settled await.  The           *)
(* Attendance ranges are few here, one for each way a handler can end.     *)
(***************************************************************************)
LiveAttendanceRanges(v) ==
  IF v = "tall"
  THEN {AbsentRange,
        [present |-> TRUE,
         rows |-> <<<<<<"R","o","l","l">>, <<"S","t","a","t","u","s">>>>,
                    <<<<"1">>, <<"P">>>>>>],
        [present |-> TRUE,
         rows |-> <<<<<<"R","o","l","l">>, <<"D","a","t","e">>, <<"S","t","a","t","u","s">>, <<"T","i","m","e">>>>,
                    <<<<"1">>, <<"1","5","/","0","1","/","2","0","2","4">>, <<"P">>, <<>>>>>>],
        [present |-> TRUE,
         rows |-> <<<<<<"R","o","l","l">>, <<"D","a","t","e">>, <<"S","t","a","t","u","s">>>>,
                    <<<<"1">>, <<"1","5","/","0","1">>>>>>],
        [present |-> TRUE,
         rows |-> <<<<<<"R","o","l","l">>, <<"D","a","t","e">>, <<"S","t","a","t","u","s">>>>,
                    <<<<"1">>, <<"0","5","/","0","2","/","2","0","2","4">>, <<"P","r","e","s","e","n","t">>>>,
                    <<<<"2">>, <<"3","1","/","0","1","/","2","0","2","4">>, <<"A">>, <<>>>>>>]}
  ELSE {AbsentRange,
        [present |-> TRUE,
         rows |-> <<<<<<"N","a","m","e">>, <<"1","5","/","0","1","/","2","0","2","4">>, <<"S","t","a","t","u","s">>>>,
                    <<<<"1">>, <<>>, <<"A">>>>>>],
        [present |-> TRUE,
         rows |-> <<<<<<"R","o","l","l">>>>,
                    <<<<"1">>, <<>>, <<"A">>>>>>],
        [present |-> TRUE,
         rows |-> <<<<<<"R","o","l","l">>, <<"1","5","/","0","1","/","2","0","2","4">>,
                      <<"S","t","a","t","u","s">>, <<"T","i","m","e">>>>,
                    <<<<"1">>, <<>>, <<"P">>, <<>>, <<>>, <<"A">>, <<"L","a","t","e">>>>>>],
        [present |-> TRUE,
         rows |-> <<<<<<"R","o","l","l">>, <<"0","5","/","0","2","/","2","0","2","4">>,
                      <<"S","t","a","t","u","s">>>>,
                    <<<<"1">>, <<>>, <<"A">>>>,
                    <<<<"2">>, <<>>, <<"P","r","e","s","e","n","t">>, <<"9",":","0","0">>, <<>>, <<"1">>>>>>]}

\* attendance endpoint: the Attendance range arrives
LiveAttendanceHandler(id) ==
  /\ reqs[id].pc = "awaitAttendance"
  /\ reqs[id].endpoint = "attendance"
  /\ \E values \in LiveAttendanceRanges(variant) :
       reqs' = [reqs EXCEPT ![id] =
         [@ EXCEPT !.pc = "done",
                   !.attendanceValues = values,
                   !.sent = Append(@, AttendanceResponse(variant, values,
                                                         reqs[id].rollNumber))]]
  /\ UNCHANGED variant

\* combined endpoint: the Attendance range arrives
LiveCombinedAttendanceStep(id) ==
  /\ reqs[id].pc = "awaitAttendance"
  /\ reqs[id].endpoint = "combined"
  /\ \E values \in LiveAttendanceRanges(variant) :
       reqs' = [reqs EXCEPT ![id] =
         [@ EXCEPT !.pc = "done",
                   !.attendanceValues = values,
                   !.sent = Append(@, CombinedResponse(variant,
                              reqs[id].student, values, reqs[id].rollNumber))]]
  /\ UNCHANGED variant

\* the awaited upstream call of request id returns or throws, and the
\* handler runs on from its await
Resolves(id) ==
  \/ StudentHandler(id)
  \/ LiveAttendanceHandler(id)
  \/ CombinedStudentStep(id)
  \/ LiveCombinedAttendanceStep(id)
  \/ UpstreamFails(id)

LiveNext ==
  \E id \in ReqIds :
    \/ Request(id)
    \/ Resolves(id)

LiveSpec ==
  Init /\ [][LiveNext]_vars /\ \A id \in ReqIds : WF_vars(Resolves(id))

(***************************************************************************)
(* Concurrent requests.  Node runs one handler at a time and a handler     *)
(* gives way only at an await, so two requests interleave at the steps     *)
(* above.  Every value a handler builds is a const or let of the handler,  *)
(* so a step reads and writes the record of its own request only.  The     *)
(* ranges are few here, the interleavings are what is explored.            *)
(***************************************************************************)
ConcurrentIds == {"r1", "r2"}

ConcurrentStudentRanges ==
  Range(<<<<"R","o","l","l">>, <<"N","a","m","e">>, <<"C","l","a","s","s">>, <<"F","a","t","h","e","r">>>>,
        SeqsUpTo(StudentRows, 1))

ConcurrentTallRows ==
  {<<<<"1">>, <<"1","5","/","0","1","/","2","0","2","4">>, <<"P">>, <<>>>>,
   <<<<"2">>, <<"3","1","/","0","1","/","2","0","2","4">>, <<"A">>, <<>>>>}

ConcurrentWideRows ==
  {<<<<"1">>, <<>>, <<"A">>>>,
   <<<<"2">>, <<>>, <<"P","r","e","s","e","n","t">>, <<"9",":","0","0">>, <<>>, <<"1">>>>}

ConcurrentAttendanceRanges(v) ==
  IF v = "tall"
  THEN Range(<<<<"R","o","l","l">>, <<"D","a","t","e">>, <<"S","t","a","t","u","s">>, <<"T","i","m","e">>>>,
             SeqsUpTo(ConcurrentTallRows, 1))
  ELSE Range(<<<<"R","o","l","l">>,
               <<"1","5","/","0","1","/","2","0","2","4">>, <<"S","t","a","t","u","s">>, <<"T","i","m","e">>>>,
             SeqsUpTo(ConcurrentWideRows, 1))

ConcurrentInit ==
  /\ variant \in {"tall", "wide"}
  /\ reqs = [id \in ConcurrentIds |-> Idle]

\* student endpoint of one of the concurrent requests
ConcurrentStudentHandler(id) ==
  /\ reqs[id].pc = "awaitStudents"
  /\ reqs[id].endpoint = "student"
  /\ \E values \in ConcurrentStudentRanges :
       reqs' = [reqs EXCEPT ![id] =
         [@ EXCEPT !.pc = "done",
                   !.studentValues = values,
                   !.sent = Append(@, StudentResponse(values,
                                                      reqs[id].rollNumber))]]
  /\ UNCHANGED variant

\* attendance endpoint of one of the concurrent requests
ConcurrentAttendanceHandler(id) ==
  /\ reqs[id].pc = "awaitAttendance"
  /\ reqs[id].endpoint = "attendance"
  /\ \E values \in ConcurrentAttendanceRanges(variant) :
       reqs' = [reqs EXCEPT ![id] =
         [@ EXCEPT !.pc = "done",
                   !.attendanceValues = values,
                   !.sent = Append(@, AttendanceResponse(variant, values,
                                                         reqs[id].rollNumber))]]
  /\ UNCHANGED variant

\* combined endpoint of one of the concurrent requests, up to its second
\* await
ConcurrentCombinedStudentStep(id) ==
  /\ reqs[id].pc = "awaitStudents"
  /\ reqs[id].endpoint = "combined"
  /\ \E values \in ConcurrentStudentRanges :
       LET part == StudentPart(values, reqs[id].rollNumber)
       IN  reqs' = [reqs EXCEPT ![id] =
             IF part.early
             THEN [@ EXCEPT !.pc = "done",
                            !.studentValues = values,
                            !.sent = Append(@, part.response)]
             ELSE [@ EXCEPT !.pc = "awaitAttendance",
                            !.studentValues = values,
                            !.student = part.student]]
  /\ UNCHANGED variant

\* ConcurrentCombinedAttendanceStep with `student` a variable of the module
\* instead of the handler: the handler answers with the student another
\* request in flight has stored there
ConcurrentCombinedAttendanceStep_SharedStudent(id) ==
  /\ reqs[id].pc = "awaitAttendance"
  /\ reqs[id].endpoint = "combined"
  /\ \E values \in ConcurrentAttendanceRanges(variant), other \in DOMAIN reqs :
       /\ reqs[other].student # NoStudent
       /\ reqs' = [reqs EXCEPT ![id] =
            [@ EXCEPT !.pc = "done",
                      !.attendanceValues = values,
                      !.sent = Append(@, CombinedResponse(variant,
                                 reqs[other].student, values,
                                 reqs[id].rollNumber))]]
  /\ UNCHANGED variant

\* combined endpoint of one of the concurrent requests, after its second
\* await
ConcurrentCombinedAttendanceStep(id) ==
  /\ reqs[id].pc = "awaitAttendance"
  /\ reqs[id].endpoint = "combined"
  /\ \E values \in ConcurrentAttendanceRanges(variant) :
       reqs' = [reqs EXCEPT ![id] =
         [@ EXCEPT !.pc = "done",
                   !.attendanceValues = values,
                   !.sent = Append(@, CombinedResponse(variant,
                              reqs[id].student, values, reqs[id].rollNumber))]]
  /\ UNCHANGED variant

ConcurrentNext ==
  \E id \in ConcurrentIds :
    \/ Request(id)
    \/ ConcurrentStudentHandler(id)
    \/ ConcurrentAttendanceHandler(id)
    \/ ConcurrentCombinedStudentStep(id)
    \/ ConcurrentCombinedAttendanceStep(id)
    \/ UpstreamFails(id)

ConcurrentSpec == ConcurrentInit /\ [][ConcurrentNext]_vars

(***************************************************************************)
(* The date parser at work: attendance requests on ranges with one entry,  *)
(* whose date text runs over day, month and year texts with slashes.  The  *)
(* text is the date cell of the row (tall) or the header of the column     *)
(* group (wide), so the inline parse and parseDate both read it.           *)
(***************************************************************************)
DayTexts == {<<"1">>, <<"0","1">>, <<"0","5">>, <<"1","5">>, <<"2","9">>, <<"3","0">>, <<"3","1">>}

MonthTexts == {<<"1">>, <<"0","1">>, <<"0","2">>, <<"0","4">>, <<"1","2">>, <<"1","5">>}

YearTexts == {<<"2","0","2","3">>, <<"2","0","2","4">>}

DateTexts ==
  {Slashed(a, b, c) : a \in DayTexts, b \in MonthTexts, c \in YearTexts}

DateRanges(v) ==
  IF v = "tall"
  THEN {[present |-> TRUE,
         rows |-> <<<<<<"R","o","l","l">>, <<"D","a","t","e">>, <<"S","t","a","t","u","s">>>>,
                    <<<<"1">>, text, <<"P">>>>>>] : text \in DateTexts}
  ELSE {[present |-> TRUE,
         rows |-> <<<<<<"R","o","l","l">>, text, <<"S","t","a","t","u","s">>>>,
                    <<<<"1">>, <<>>, <<"P">>>>>>] : text \in DateTexts}

\* a request for the attendance of roll number 1 arrives
DateRequest(id) ==
  /\ reqs[id].pc = "idle"
  /\ reqs' = [reqs EXCEPT ![id] =
       [@ EXCEPT !.pc = "awaitAttendance",
                 !.endpoint = "attendance",
                 !.rollNumber = <<"1">>]]
  /\ UNCHANGED variant

\* attendance endpoint: a range with one dated entry arrives
DateAttendanceHandler(id) ==
  /\ reqs[id].pc = "awaitAttendance"
  /\ reqs[id].endpoint = "attendance"
  /\ \E values \in DateRanges(variant) :
       reqs' = [reqs EXCEPT ![id] =
         [@ EXCEPT !.pc = "done",
                   !.attendanceValues = values,
                   !.sent = Append(@, AttendanceResponse(variant, values,
                                                         reqs[id].rollNumber))]]
  /\ UNCHANGED variant

DateNext ==
  \E id \in ReqIds :
    \/ DateRequest(id)
    \/ DateAttendanceHandler(id)

DateSpec == Init /\ [][DateNext]_vars

(***************************************************************************)
(* The column group detector at work: attendance requests of the wide      *)
(* variant on ranges whose header row runs over the kinds of header cells  *)
(* the detector tells apart, with one row of the student under it.         *)
(***************************************************************************)
DetectorCells ==
  {<<"0","1","/","0","1","/","2","0","2","4">>,
   <<"0","1","/","0","2","/","2","0","2","4">>,
   <<"S","t","a","t","u","s">>, <<"T","i","m","e">>, <<>>}

DetectorHeaders ==
  {<<<<"R","o","l","l">>>> \o cells :
     cells \in SeqsUpTo(DetectorCells, MaxHeaderCells)}

DetectorRow == <<<<"1">>, <<"P">>, <<"P">>, <<"A">>, <<"P">>>>

DetectorRanges ==
  {[present |-> TRUE, rows |-> <<h, DetectorRow>>] : h \in DetectorHeaders}

DetectorInit ==
  /\ variant = "wide"
  /\ reqs = [id \in ReqIds |-> Idle]

\* attendance endpoint, wide variant: a range with some header row arrives
DetectorAttendanceHandler(id) ==
  /\ reqs[id].pc = "awaitAttendance"
  /\ reqs[id].endpoint = "attendance"
  /\ \E values \in DetectorRanges :
       reqs' = [reqs EXCEPT ![id] =
         [@ EXCEPT !.pc = "done",
                   !.attendanceValues = values,
                   !.sent = Append(@, WideAttendanceResponse(values,
                                        reqs[id].rollNumber))]]
  /\ UNCHANGED variant

DetectorNext ==
  \E id \in ReqIds :
    \/ DateRequest(id)
    \/ DetectorAttendanceHandler(id)

DetectorSpec == DetectorInit /\ [][DetectorNext]_vars

(***************************************************************************)
(* The status and time classification at work: attendance requests on      *)
(* ranges with one entry dated 15/01/2024, whose status and time cells run *)
(* over texts; a cell the sheet leaves out ends the row before it.         *)
(***************************************************************************)
StatusTexts ==
  {<<"P">>, <<"p">>, <<"P","r","e","s","e","n","t">>, <<"p","r","e","s","e","n","t">>,
   <<"1">>, <<"a","p","p","l","e">>, <<"A">>, <<"a">>, <<"a","b","s","e","n","t">>,
   <<"A","b","s","e","n","t">>, <<"0">>, <<"1","1">>, <<"Y","e","s">>, <<"L">>, <<>>}

TimeTexts == {<<"L","a","t","e">>, <<"9",":","0","0">>, <<"d","e","l","a","y","e","d">>, <<>>}

\* the cells of a row after its first cells
StatusCells ==
  {<<>>}
    \cup {<<status>> : status \in StatusTexts}
    \cup {<<status, time>> : status \in StatusTexts, time \in TimeTexts}

\* the headers of these ranges, with and without a time column
StatusHeaders(v) ==
  IF v = "tall"
  THEN {<<<<"R","o","l","l">>, <<"D","a","t","e">>, <<"S","t","a","t","u","s">>, <<"T","i","m","e">>>>,
        <<<<"R","o","l","l">>, <<"D","a","t","e">>, <<"S","t","a","t","u","s">>>>}
  ELSE {<<<<"R","o","l","l">>, <<"1","5","/","0","1","/","2","0","2","4">>,
          <<"S","t","a","t","u","s">>, <<"T","i","m","e">>>>,
        <<<<"R","o","l","l">>, <<"1","5","/","0","1","/","2","0","2","4">>,
          <<"S","t","a","t","u","s">>>>}

StatusRanges(v) ==
  IF v = "tall"
  THEN {[present |-> TRUE,
         rows |-> <<header,
                    <<<<"1">>, <<"1","5","/","0","1","/","2","0","2","4">>>> \o cells>>] :
          header \in StatusHeaders(v), cells \in StatusCells}
  ELSE {[present |-> TRUE,
         rows |-> <<header, <<<<"1">>, <<>>>> \o cells>>] :
          header \in StatusHeaders(v), cells \in StatusCells}

\* attendance endpoint: a range with one entry and some status cell arrives
StatusAttendanceHandler(id) ==
  /\ reqs[id].pc = "awaitAttendance"
  /\ reqs[id].endpoint = "attendance"
  /\ \E values \in StatusRanges(variant) :
       reqs' = [reqs EXCEPT ![id] =
         [@ EXCEPT !.pc = "done",
                   !.attendanceValues = values,
                   !.sent = Append(@, AttendanceResponse(variant, values,
                                                         reqs[id].rollNumber))]]
  /\ UNCHANGED variant

StatusNext ==
  \E id \in ReqIds :
    \/ DateRequest(id)
    \/ StatusAttendanceHandler(id)

StatusSpec == Init /\ [][StatusNext]_vars

(***************************************************************************)
(* Properties.                                                             *)
(***************************************************************************)
Done(id) == reqs[id].pc = "done" /\ Len(reqs[id].sent) = 1

Resp(id) == reqs[id].sent[1]

\* a request that was answered with an attendance object
SuccessfulAttendance(id) ==
  /\ Done(id)
  /\ reqs[id].endpoint \in {"attendance", "combined"}
  /\ Resp(id).status = 200

AttendanceOf(id) == Resp(id).body.data.attendance

RECURSIVE SumInts(_)
SumInts(ns) == IF Len(ns) = 0 THEN 0 ELSE Head(ns) + SumInts(Tail(ns))


CountersAddUp(c) == c.totalDays = c.daysPresent + c.daysAbsent

\* C1: in every successful attendance or combined response, in both
\* variants, every month bucket and yearToDate satisfy
\* totalDays = daysPresent + daysAbsent.
C1_CountersAddUp ==
  \A id \in ReqIds :
    SuccessfulAttendance(id) =>
      /\ CountersAddUp(AttendanceOf(id).yearToDate)
      /\ \A i \in 1..Len(AttendanceOf(id).months) :
           CountersAddUp(AttendanceOf(id).months[i])

\* a response with a month that counts present and absent days, built from
\* a range in which one entry of the student was skipped
C1_Witness ==
  \E id \in ReqIds :
    /\ SuccessfulAttendance(id)
    /\ \E i \in 1..Len(AttendanceOf(id).months) :
         /\ AttendanceOf(id).months[i].daysPresent > 0
         /\ AttendanceOf(id).months[i].daysAbsent > 0
    /\ \/ variant = "wide"
       \/ AttendanceOf(id).yearToDate.totalDays
            < Cardinality({k \in 2..Len(reqs[id].attendanceValues.rows) :
                Cell(reqs[id].attendanceValues.rows[k], 0)
                  = reqs[id].rollNumber})

\* C2: after gap filling, the number of day records of every month bucket
\* equals the number of calendar days of its month.
C2_DaysCount ==
  \A id \in ReqIds :
    SuccessfulAttendance(id) =>
      \A i \in 1..Len(AttendanceOf(id).months) :
        Len(AttendanceOf(id).months[i].days)
          = DaysInMonth(AttendanceOf(id).months[i].month,
                        AttendanceOf(id).months[i].year)

TotalDaysOf(months) == [i \in 1..Len(months) |-> months[i].totalDays]

DaysPresentOf(months) == [i \in 1..Len(months) |-> months[i].daysPresent]

DaysAbsentOf(months) == [i \in 1..Len(months) |-> months[i].daysAbsent]

\* C3: each yearToDate counter is the sum of that counter over the month
\* buckets of the response.
C3_YearToDateIsSum ==
  \A id \in ReqIds :
    SuccessfulAttendance(id) =>
      LET a == AttendanceOf(id)
      IN  /\ a.yearToDate.totalDays = SumInts(TotalDaysOf(a.months))
          /\ a.yearToDate.daysPresent = SumInts(DaysPresentOf(a.months))
          /\ a.yearToDate.daysAbsent = SumInts(DaysAbsentOf(a.months))

\* a response with two month buckets, each with a recorded day
C3_Witness ==
  \E id \in ReqIds :
    /\ SuccessfulAttendance(id)
    /\ Len(AttendanceOf(id).months) >= 2
    /\ AttendanceOf(id).yearToDate.daysAbsent > 0
    /\ AttendanceOf(id).yearToDate.daysPresent > 0

\* text is digits, a point and one digit, and the number it writes is the
\* tenth nearest to present / total * 100
IsRoundedPercentage(text, present, total) ==
  /\ Len(text) >= 3
  /\ text[Len(text) - 1] = "."
  /\ AllDigits(SubSeq(text, 1, Len(text) - 2))
  /\ IsDigit(text[Len(text)])
  /\ (Len(text) > 3 => text[1] # "0")
  /\ LET tenths == 10 * NumberOf(SubSeq(text, 1, Len(text) - 2))
                     + NumberOf(<<text[Len(text)]>>)
     IN  /\ 2 * (1000 * present - tenths * total) <= total
         /\ 2 * (tenths * total - 1000 * present) < total

PercentageAsCoded(c) ==
  IF c.totalDays > 0
  THEN /\ c.percentage.type = "string"
       /\ IsRoundedPercentage(c.percentage.text, c.daysPresent, c.totalDays)
  ELSE c.percentage.type = "number" /\ c.percentage.value = 0

PercentageAsClaimed(c) ==
  /\ c.percentage.type = "string"
  /\ IF c.totalDays > 0
     THEN IsRoundedPercentage(c.percentage.text, c.daysPresent, c.totalDays)
     ELSE c.percentage.text = <<"0">>

\* C4 (as amended): for every month bucket and for yearToDate, percentage
\* is daysPresent / totalDays * 100 rounded to one decimal place and
\* rendered as a string when totalDays > 0, and is the number 0 when
\* totalDays = 0.
C4_Percentage ==
  \A id \in ReqIds :
    SuccessfulAttendance(id) =>
      /\ PercentageAsCoded(AttendanceOf(id).yearToDate)
      /\ \A i \in 1..Len(AttendanceOf(id).months) :
           PercentageAsCoded(AttendanceOf(id).months[i])

\* C4 as claimed: the percentage is a string in every case, "0" when
\* totalDays = 0.
C4_PercentageAlwaysString ==
  \A id \in ReqIds :
    SuccessfulAttendance(id) =>
      /\ PercentageAsClaimed(AttendanceOf(id).yearToDate)
      /\ \A i \in 1..Len(AttendanceOf(id).months) :
           PercentageAsClaimed(AttendanceOf(id).months[i])

\* a response whose yearToDate percentage had to be rounded (one day of
\* three), next to a month whose percentage is whole
C4_Witness ==
  \E id \in ReqIds :
    /\ SuccessfulAttendance(id)
    /\ AttendanceOf(id).yearToDate.totalDays = 3
    /\ AttendanceOf(id).yearToDate.daysPresent = 1
    /\ AttendanceOf(id).yearToDate.percentage.type = "string"
    /\ AttendanceOf(id).yearToDate.percentage.text = <<"3", "3", ".", "3">>

\* the range one endpoint reads first
HasDataRows(values) == values.present /\ Len(values.rows) >= 2

HasIdColumn(values) ==
  \E i \in 1..Len(values.rows[1]) : IsRollHeader(values.rows[1][i])

IdIndex(values) == FindIndex(values.rows[1], "IsRollHeader")

SomeRowMatches(values, rollNumber) ==
  \E k \in 1..Len(values.rows) :
    Cell(values.rows[k], IdIndex(values)) = rollNumber

\* the entries the handler of request id folds, once every guard has passed
RequestEntries(id) ==
  LET values == reqs[id].attendanceValues
      header == values.rows[1]
  IN  IF variant = "tall"
      THEN TallEntries(FilterRows(values.rows, IdIndex(values),
                                  reqs[id].rollNumber),
                       FindIndex(header, "IsDateHeader"),
                       FindIndex(header, "IsStatusHeader"),
                       FindIndex(header, "IsTimeHeader"))
      ELSE WideEntries(header,
                       FindRow(values.rows, IdIndex(values),
                               reqs[id].rollNumber),
                       DateColumnGroups(header, IdIndex(values)))

\* every guard before the aggregation passes
Aggregates(id) ==
  LET values == reqs[id].attendanceValues
  IN  /\ Fetched(values)
      /\ HasDataRows(values)
      /\ HasIdColumn(values)
      /\ SomeRowMatches(values, reqs[id].rollNumber)
      /\ variant = "tall" =>
           /\ FindIndex(values.rows[1], "IsDateHeader") # -1
           /\ FindIndex(values.rows[1], "IsStatusHeader") # -1

\* C5: an entry whose date is missing or does not parse to a valid date is
\* dropped silently: the request still ends in a success response, and the
\* counters count the other entries only.
C5_InvalidDatesDropped ==
  \A id \in ReqIds :
    ( /\ Done(id)
      /\ reqs[id].endpoint \in {"attendance", "combined"}
      /\ Aggregates(id)
      /\ \E k \in 1..Len(RequestEntries(id)) :
           RequestEntries(id)[k].kind # "record" ) =>
      /\ Resp(id).status = 200
      /\ AttendanceOf(id).yearToDate.totalDays
           = Cardinality({k \in 1..Len(RequestEntries(id)) :
                            RequestEntries(id)[k].kind = "record"})

\* the Students range of a student or combined request that was fetched
ReadsStudents(id) ==
  /\ Done(id)
  /\ reqs[id].endpoint \in {"student", "combined"}
  /\ Fetched(reqs[id].studentValues)

\* the range a student or attendance request reads
OwnRange(id) ==
  IF reqs[id].endpoint = "student" THEN reqs[id].studentValues
  ELSE reqs[id].attendanceValues

ReadsOwnRange(id) ==
  /\ Done(id)
  /\ reqs[id].endpoint \in {"student", "attendance"}
  /\ Fetched(OwnRange(id))

NoStudentMatches(id) ==
  /\ ReadsStudents(id)
  /\ HasDataRows(reqs[id].studentValues)
  /\ HasIdColumn(reqs[id].studentValues)
  /\ ~SomeRowMatches(reqs[id].studentValues, reqs[id].rollNumber)

\* C6: on the student and the combined endpoint, when the Students range
\* has data rows and an identifier column but no row whose identifier cell
\* equals rollNumber, the response is 404 {success: false, message:
\* "Student not found"}.
C6_StudentNotFound ==
  \A id \in ReqIds :
    NoStudentMatches(id) =>
      Resp(id) = [status |-> 404,
                  body |-> [success |-> FALSE,
                            message |-> "Student not found"]]

\* a combined request for a roll number no row of the Students range holds
C6_Witness ==
  \E id \in ReqIds :
    /\ NoStudentMatches(id)
    /\ reqs[id].endpoint = "combined"
    /\ Resp(id).status = 404

RangeIsEmpty(values) == ~values.present \/ Len(values.rows) <= 1

\* C7: when the fetched range is absent or has at most the header row, the
\* student endpoint and the attendance endpoint answer 404 with
\* success = false, whatever the header and the roll number are.
C7_EmptyRange404 ==
  \A id \in ReqIds :
    (ReadsOwnRange(id) /\ RangeIsEmpty(OwnRange(id))) =>
      Resp(id).status = 404 /\ Resp(id).body.success = FALSE

\* an attendance request on a header-only range whose header has no
\* identifier column
C7_Witness ==
  \E id \in ReqIds :
    /\ ReadsOwnRange(id)
    /\ reqs[id].endpoint = "attendance"
    /\ OwnRange(id).present
    /\ Len(OwnRange(id).rows) = 1
    /\ ~HasIdColumn(OwnRange(id))
    /\ Resp(id).status = 404

\* C8: when the fetched range has a data row but no header cell contains
\* "roll", "admission" or "id", the student endpoint and the attendance
\* endpoint answer 400 with success = false for every roll number.
C8_NoIdColumn400 ==
  \A id \in ReqIds :
    ( /\ ReadsOwnRange(id)
      /\ HasDataRows(OwnRange(id))
      /\ ~HasIdColumn(OwnRange(id)) ) =>
      Resp(id).status = 400 /\ Resp(id).body.success = FALSE

\* a student request on a range with a data row and no identifier column
C8_Witness ==
  \E id \in ReqIds :
    /\ ReadsOwnRange(id)
    /\ reqs[id].endpoint = "student"
    /\ HasDataRows(OwnRange(id))
    /\ ~HasIdColumn(OwnRange(id))
    /\ Resp(id).status = 400

\* no date column can be detected in the Attendance range
NoDateColumn(values) ==
  IF variant = "tall"
  THEN \A i \in 1..Len(values.rows[1]) : ~IsDateHeader(values.rows[1][i])
  ELSE DateColumnGroups(values.rows[1], IdIndex(values)) = <<>>

AttendanceWithoutDates(id) ==
  /\ Done(id)
  /\ reqs[id].endpoint = "attendance"
  /\ Fetched(reqs[id].attendanceValues)
  /\ HasDataRows(reqs[id].attendanceValues)
  /\ HasIdColumn(reqs[id].attendanceValues)
  /\ NoDateColumn(reqs[id].attendanceValues)

\* C9 (as amended): on the attendance endpoint, when the Attendance range
\* has data rows and an identifier column but no date column can be
\* detected, the response is 400 with success = false - in the tall variant
\* for any roll number, in the wide variant for a roll number that some row
\* of the range holds.
C9_NoDateColumn400 ==
  \A id \in ReqIds :
    ( /\ AttendanceWithoutDates(id)
      /\ variant = "wide" =>
           SomeRowMatches(reqs[id].attendanceValues, reqs[id].rollNumber) ) =>
      Resp(id).status = 400 /\ Resp(id).body.success = FALSE

\* C9 as claimed: 400 for any requested roll number, in both variants.
C9_AnyRollNumber400 ==
  \A id \in ReqIds :
    AttendanceWithoutDates(id) =>
      Resp(id).status = 400 /\ Resp(id).body.success = FALSE

\* a wide attendance request whose student row is found and whose header has
\* no column group
C9_Witness ==
  \E id \in ReqIds :
    /\ AttendanceWithoutDates(id)
    /\ variant = "wide"
    /\ SomeRowMatches(reqs[id].attendanceValues, reqs[id].rollNumber)
    /\ Len(reqs[id].attendanceValues.rows[1]) > 1
    /\ Resp(id).status = 400

\* the attendance fetch of a combined request returned nothing usable
NothingUsable(id) ==
  LET values == reqs[id].attendanceValues
  IN  /\ Done(id)
      /\ reqs[id].endpoint = "combined"
      /\ Fetched(values)
      /\ \/ RangeIsEmpty(values)
         \/ ~HasIdColumn(values)
         \/ ~SomeRowMatches(values, reqs[id].rollNumber)
         \/ NoDateColumn(values)

\* C10: on the combined endpoint, when the student is found and the
\* attendance fetch yields nothing usable, the response is 200 with the
\* found student and the zeroed attendance object.
C10_CombinedFallback ==
  \A id \in ReqIds :
    NothingUsable(id) =>
      Resp(id) =
        [status |-> 200,
         body |-> [success |-> TRUE,
                   data |-> [student |-> reqs[id].student,
                             attendance |->
                               [yearToDate |->
                                  [totalDays |-> 0, daysPresent |-> 0,
                                   daysAbsent |-> 0,
                                   percentage |-> [type |-> "number",
                                                   value |-> 0]],
                                months |-> <<>>]]]]

\* a wide combined request whose attendance row is found under a header
\* without column groups
C10_Witness ==
  \E id \in ReqIds :
    /\ NothingUsable(id)
    /\ variant = "wide"
    /\ HasDataRows(reqs[id].attendanceValues)
    /\ HasIdColumn(reqs[id].attendanceValues)
    /\ SomeRowMatches(reqs[id].attendanceValues, reqs[id].rollNumber)
    /\ reqs[id].student # NoStudent
    /\ Resp(id).status = 200

\* the awaited upstream call of a finished request was rejected
UpstreamFailed(id) ==
  /\ Done(id)
  /\ \/ reqs[id].endpoint \in {"student", "combined"}
          /\ ~Fetched(reqs[id].studentValues)
     \/ reqs[id].endpoint = "attendance"
          /\ ~Fetched(reqs[id].attendanceValues)
     \/ reqs[id].endpoint = "combined"
          /\ reqs[id].student # NoStudent
          /\ ~Fetched(reqs[id].attendanceValues)

\* the aggregation of a finished request raised on an entry
AggregationThrew(id) ==
  /\ Done(id)
  /\ reqs[id].endpoint \in {"attendance", "combined"}
  /\ Aggregates(id)
  /\ variant = "wide" =>
       DateColumnGroups(reqs[id].attendanceValues.rows[1],
                        IdIndex(reqs[id].attendanceValues)) # <<>>
  /\ Throws(RequestEntries(id))

ErrorResponse(msg) ==
  [status |-> 500, body |-> [success |-> FALSE, error |-> msg]]

\* C11: an exception raised while a handler runs - the upstream call
\* failing, or the aggregation raising on an entry - is answered by that
\* handler with 500 {success: false, error: <the exception's message>}, and
\* every finished handler has sent exactly one response.
C11_ExceptionsCaught ==
  \A id \in ReqIds :
    /\ reqs[id].pc = "done" => Len(reqs[id].sent) = 1
    /\ UpstreamFailed(id) =>
         Resp(id) = ErrorResponse("upstream request failed")
    /\ AggregationThrew(id) =>
         Resp(id) = ErrorResponse(
           "Cannot read properties of undefined (reading 'getTime')")

\* a combined request whose aggregation raised on a date text, after the
\* student was found
C11_Witness ==
  \E id \in ReqIds :
    /\ AggregationThrew(id)
    /\ reqs[id].endpoint = "combined"
    /\ reqs[id].student # NoStudent
    /\ Resp(id).status = 500

\* a finished combined request that fetched both ranges
CombinedRead(id) ==
  /\ Done(id)
  /\ reqs[id].endpoint = "combined"
  /\ Fetched(reqs[id].studentValues)
  /\ Fetched(reqs[id].attendanceValues)

\* what the student endpoint answers on the Students range of request id
StudentAnswer(id) ==
  StudentResponse(reqs[id].studentValues, reqs[id].rollNumber)

\* what the attendance endpoint answers on the Attendance range of request id
AttendanceAnswer(id) ==
  AttendanceResponse(variant, reqs[id].attendanceValues, reqs[id].rollNumber)

\* C12: for the same ranges and roll number, whenever the student endpoint
\* answers 200 with S and the attendance endpoint answers 200 with A, the
\* combined endpoint answers 200 with {student: S, attendance: A.attendance}.
C12_CombinedIsUnion ==
  \A id \in ReqIds :
    CombinedRead(id) =>
      LET S == StudentAnswer(id)
          A == AttendanceAnswer(id)
      IN  (S.status = 200 /\ A.status = 200) =>
            Resp(id) =
              [status |-> 200,
               body |-> [success |-> TRUE,
                         data |-> [student |-> S.body.data,
                                   attendance |-> A.body.data.attendance]]]

\* a combined request whose attendance has a late day and two months
C12_Witness ==
  \E id \in ReqIds :
    /\ CombinedRead(id)
    /\ StudentAnswer(id).status = 200
    /\ AttendanceAnswer(id).status = 200
    /\ Len(Resp(id).body.data.attendance.months) = 2
    /\ \E i \in 1..2 :
         \E k \in 1..Len(Resp(id).body.data.attendance.months[i].days) :
           Resp(id).body.data.attendance.months[i].days[k].timeStatus = "late"

\* the response the handler of request id gives when it runs alone on the
\* ranges and the roll number of that request
AloneResponse(id) ==
  LET r == reqs[id]
      part == StudentPart(r.studentValues, r.rollNumber)
  IN  IF r.endpoint = "student"
      THEN IF Fetched(r.studentValues)
           THEN StudentResponse(r.studentValues, r.rollNumber)
           ELSE ErrorResponse("upstream request failed")
      ELSE IF r.endpoint = "attendance"
      THEN IF Fetched(r.attendanceValues)
           THEN AttendanceResponse(variant, r.attendanceValues, r.rollNumber)
           ELSE ErrorResponse("upstream request failed")
      ELSE IF ~Fetched(r.studentValues)
           THEN ErrorResponse("upstream request failed")
           ELSE IF part.early THEN part.response
           ELSE IF ~Fetched(r.attendanceValues)
           THEN ErrorResponse("upstream request failed")
           ELSE CombinedResponse(variant, part.student, r.attendanceValues,
                                 r.rollNumber)

\* C13: under every interleaving of two requests at their awaits, each
\* request is answered once, with the response its handler gives when it
\* runs alone on the same ranges; nothing one request builds shows in the
\* record of the other.
C13_RequestsIsolated ==
  \A id \in DOMAIN reqs :
    /\ reqs[id].pc # "done" => reqs[id].sent = <<>>
    /\ reqs[id].pc = "done" => reqs[id].sent = <<AloneResponse(id)>>

\* two finished combined requests for different roll numbers, each answered
\* with its own student and a month of its own attendance
C13_Witness ==
  /\ DOMAIN reqs = {"r1", "r2"}
  /\ \A id \in DOMAIN reqs :
       /\ Done(id)
       /\ reqs[id].endpoint = "combined"
       /\ Resp(id).status = 200
       /\ Len(Resp(id).body.data.attendance.months) = 1
  /\ reqs["r1"].rollNumber # reqs["r2"].rollNumber
  /\ Resp("r1").body.data.student # Resp("r2").body.data.student
  /\ Resp("r1").body.data.attendance # Resp("r2").body.data.attendance

\* the number of days of month m (zero-based) of year y, from the calendar
CalendarDays(m, y) ==
  IF m \in {0, 2, 4, 6, 7, 9, 11} THEN 31
  ELSE IF m # 1 THEN 30
  ELSE IF y % 400 = 0 \/ (y % 4 = 0 /\ y % 100 # 0) THEN 29 ELSE 28

\* C14: after the post-pass, the days of every month bucket are ordered by
\* non-decreasing day number, and every day number 1..daysInMonth occurs
\* among them.
C14_DaysSortedAndComplete ==
  \A id \in ReqIds :
    SuccessfulAttendance(id) =>
      \A i \in 1..Len(AttendanceOf(id).months) :
        LET b == AttendanceOf(id).months[i]
        IN  /\ \A k \in 1..(Len(b.days) - 1) :
                 b.days[k].day <= b.days[k + 1].day
            /\ \A d \in 1..CalendarDays(b.month, b.year) :
                 \E k \in 1..Len(b.days) : b.days[k].day = d

\* a month whose two recorded entries were pushed out of order, the later
\* day first, and lie behind the first of the month
C14_Witness ==
  \E id \in ReqIds :
    /\ SuccessfulAttendance(id)
    /\ variant = "tall"
    /\ Aggregates(id)
    /\ Len(RequestEntries(id)) = 2
    /\ RequestEntries(id)[1].kind = "record"
    /\ RequestEntries(id)[2].kind = "record"
    /\ RequestEntries(id)[1].date.month = RequestEntries(id)[2].date.month
    /\ RequestEntries(id)[1].date.day > RequestEntries(id)[2].date.day

\* the day of the week of a calendar date, 0 for Sunday; m is zero-based
\* (Sakamoto's method)
Weekday(y, m, d) ==
  LET t == <<0, 3, 2, 5, 0, 3, 5, 1, 4, 6, 2, 4>>
      yy == IF m < 2 THEN y - 1 ELSE y
  IN  (yy + (yy \div 4) - (yy \div 100) + (yy \div 400) + t[m + 1] + d) % 7

\* the records of day d in days that gap filling made / that were recorded
Synthesized(days, d) ==
  {k \in 1..Len(days) : days[k].day = d /\ ~days[k].isSchoolDay}

Recorded(days, d) ==
  {k \in 1..Len(days) : days[k].day = d /\ days[k].isSchoolDay}

\* a synthesized record of the variant, for the date it stands for
SynthesizedAsClaimed(r, y, m) ==
  /\ r.isSchoolDay = FALSE
  /\ r.status = "no-school"
  /\ r.timeStatus = ""
  /\ IF variant = "tall"
     THEN /\ DOMAIN r = {"day", "isSchoolDay", "status", "timeStatus",
                          "isWeekend"}
          /\ r.isWeekend = (Weekday(y, m, r.day) \in {0, 6})
     ELSE /\ DOMAIN r = {"day", "isSchoolDay", "status", "timeStatus",
                          "isWeekend", "isSunday", "isHoliday"}
          /\ r.isSunday = (Weekday(y, m, r.day) = 0)
          /\ r.isWeekend = r.isSunday
          /\ r.isHoliday = ~r.isSunday

\* C15: gap filling makes exactly one record for each calendar day of the
\* month without a recorded entry and none for a day with one; a made
\* record has isSchoolDay = false, status "no-school", timeStatus "", and
\* the weekend flags of the variant.
C15_GapFilling ==
  \A id \in ReqIds :
    SuccessfulAttendance(id) =>
      \A i \in 1..Len(AttendanceOf(id).months) :
        LET b == AttendanceOf(id).months[i]
        IN  /\ \A d \in 1..CalendarDays(b.month, b.year) :
                 Cardinality(Synthesized(b.days, d))
                   = IF Recorded(b.days, d) = {} THEN 1 ELSE 0
            /\ \A k \in 1..Len(b.days) :
                 ~b.days[k].isSchoolDay =>
                   /\ b.days[k].day \in 1..CalendarDays(b.month, b.year)
                   /\ SynthesizedAsClaimed(b.days[k], b.year, b.month)

\* a tall response for January 2024 with a recorded 15th, whose Saturday
\* the 6th and Sunday the 7th are weekend days and Monday the 8th is not
C15_Witness ==
  \E id \in ReqIds :
    /\ SuccessfulAttendance(id)
    /\ variant = "tall"
    /\ \E i \in 1..Len(AttendanceOf(id).months) :
         LET b == AttendanceOf(id).months[i]
         IN  /\ b.month = 0 /\ b.year = 2024
             /\ Recorded(b.days, 15) # {}
             /\ \E k \in Synthesized(b.days, 6) : b.days[k].isWeekend
             /\ \E k \in Synthesized(b.days, 7) : b.days[k].isWeekend
             /\ \E k \in Synthesized(b.days, 8) : ~b.days[k].isWeekend

\* a finished attendance request on a range with one entry of the student
OneEntryRead(id) ==
  /\ Done(id)
  /\ reqs[id].endpoint = "attendance"
  /\ Fetched(reqs[id].attendanceValues)
  /\ Len(reqs[id].attendanceValues.rows) = 2
  /\ Len(reqs[id].attendanceValues.rows[1]) = 3
  /\ reqs[id].attendanceValues.rows[2][1] = reqs[id].rollNumber

\* the date text of that entry
EntryDateText(id) ==
  IF variant = "tall" THEN reqs[id].attendanceValues.rows[2][2]
  ELSE reqs[id].attendanceValues.rows[1][2]

\* text is d/m/y in digits, d and m of at most two characters, and (d, m, y)
\* is a date of the calendar
DayFirstReal(text) ==
  LET p == Split(text, "/")
  IN  /\ Len(p) = 3
      /\ \A i \in 1..3 : AllDigits(p[i])
      /\ Len(p[1]) <= 2 /\ Len(p[2]) <= 2
      /\ NumberOf(p[2]) \in 1..12
      /\ NumberOf(p[1]) \in 1..CalendarDays(NumberOf(p[2]) - 1, NumberOf(p[3]))

\* the response counts one entry, on day d of month m (zero-based) of year y
CountedOn(id, d, m, y) ==
  /\ Resp(id).status = 200
  /\ AttendanceOf(id).yearToDate.totalDays = 1
  /\ Len(AttendanceOf(id).months) = 1
  /\ AttendanceOf(id).months[1].month = m
  /\ AttendanceOf(id).months[1].year = y
  /\ Recorded(AttendanceOf(id).months[1].days, d) # {}

\* C16: a slash-separated date text d/m/y of three parts, d and m of at
\* most two characters and (d, m, y) a date of the calendar (the year
\* written with four digits), is parsed day first: the entry is counted on
\* day d of month m - 1 (zero-based) of year y, in both variants.
C16_DayFirst ==
  \A id \in ReqIds :
    (OneEntryRead(id) /\ DayFirstReal(EntryDateText(id))) =>
      LET p == Split(EntryDateText(id), "/")
      IN  CountedOn(id, NumberOf(p[1]), NumberOf(p[2]) - 1, NumberOf(p[3]))

\* the entry dated "15/01/2024" counted on 15 January 2024
C16_Witness ==
  \E id \in ReqIds :
    /\ OneEntryRead(id)
    /\ EntryDateText(id) = <<"1","5","/","0","1","/","2","0","2","4">>
    /\ DayFirstReal(EntryDateText(id))
    /\ CountedOn(id, 15, 0, 2024)

\* C17 as claimed: the entry dated "01/15/2024" is read month first and
\* counted on 15 January 2024.
C17_MonthFirstCounted ==
  \A id \in ReqIds :
    ( /\ OneEntryRead(id)
      /\ EntryDateText(id) = <<"0","1","/","1","5","/","2","0","2","4">> ) =>
      CountedOn(id, 15, 0, 2024)

\* a finished attendance request of the wide variant whose header row has
\* an identifier column
WideHeaderRead(id) ==
  /\ Done(id)
  /\ variant = "wide"
  /\ reqs[id].endpoint = "attendance"
  /\ Fetched(reqs[id].attendanceValues)
  /\ HasDataRows(reqs[id].attendanceValues)
  /\ HasIdColumn(reqs[id].attendanceValues)

\* the groups the detector emits for the header row of request id
GroupsOf(id) ==
  DateColumnGroups(reqs[id].attendanceValues.rows[1],
                   IdIndex(reqs[id].attendanceValues))

GroupColumns(g) == {g.dateCol, g.statusCol, g.timeCol}

\* C18: the groups the detector emits never overlap: in each group
\* dateCol < statusCol < timeCol, the date column of a group lies behind the
\* time column of the group before it, and no column belongs to two groups.
C18_GroupsDisjoint ==
  \A id \in ReqIds :
    WideHeaderRead(id) =>
      LET gs == GroupsOf(id)
      IN  /\ \A k \in 1..Len(gs) :
               gs[k].dateCol < gs[k].statusCol
                 /\ gs[k].statusCol < gs[k].timeCol
          /\ \A k \in 1..(Len(gs) - 1) : gs[k + 1].dateCol > gs[k].timeCol
          /\ \A k, l \in 1..Len(gs) :
               k # l => GroupColumns(gs[k]) \cap GroupColumns(gs[l]) = {}

\* a header row with two groups, a date column lying inside the first one
C18_Witness ==
  \E id \in ReqIds :
    /\ WideHeaderRead(id)
    /\ Len(GroupsOf(id)) = 2
    /\ \E c \in GroupColumns(GroupsOf(id)[1]) :
         /\ c # GroupsOf(id)[1].dateCol
         /\ IsDateColumn(reqs[id].attendanceValues.rows[1], c)

\* C19 as claimed: every header column to the right of the identifier
\* column that qualifies as a date column is the date column of exactly one
\* emitted group.
C19_OneGroupPerDate ==
  \A id \in ReqIds :
    WideHeaderRead(id) =>
      \A c \in (IdIndex(reqs[id].attendanceValues) + 1)
                ..(Len(reqs[id].attendanceValues.rows[1]) - 1) :
        IsDateColumn(reqs[id].attendanceValues.rows[1], c) =>
          Cardinality({k \in 1..Len(GroupsOf(id)) :
                         GroupsOf(id)[k].dateCol = c}) = 1

\* a finished attendance request on a range with one entry of the student,
\* dated 15/01/2024, under a header with a status and a time column
StatusEntryRead(id) ==
  /\ Done(id)
  /\ reqs[id].endpoint = "attendance"
  /\ Fetched(reqs[id].attendanceValues)
  /\ Len(reqs[id].attendanceValues.rows) = 2
  /\ Len(reqs[id].attendanceValues.rows[1]) = 4
  /\ reqs[id].attendanceValues.rows[2][1] = reqs[id].rollNumber
  /\ Len(reqs[id].attendanceValues.rows[2]) >= 2
  /\ EntryDateText(id) = <<"1","5","/","0","1","/","2","0","2","4">>

\* the status cell of that entry, lower-cased; empty when the cell is
\* missing or empty
StatusTextOf(id) ==
  LET row == reqs[id].attendanceValues.rows[2]
  IN  IF Len(row) < 3 THEN <<>>
      ELSE ToLowerCase(row[3])

PresentAsClaimed(text) ==
  (\E i \in 1..Len(text) : text[i] = "p") \/ text = <<"1">>

\* C20: an entry with a valid date is recorded as present exactly when its
\* lower-cased status cell contains the letter p or equals "1", and as
\* absent otherwise; either way it counts toward totalDays.
C20_StatusClassification ==
  \A id \in ReqIds :
    StatusEntryRead(id) =>
      /\ Resp(id).status = 200
      /\ AttendanceOf(id).yearToDate.totalDays = 1
      /\ AttendanceOf(id).yearToDate.daysPresent
           = IF PresentAsClaimed(StatusTextOf(id)) THEN 1 ELSE 0
      /\ Len(AttendanceOf(id).months) = 1
      /\ AttendanceOf(id).months[1].totalDays = 1
      /\ \A k \in Recorded(AttendanceOf(id).months[1].days, 15) :
           AttendanceOf(id).months[1].days[k].status
             = IF PresentAsClaimed(StatusTextOf(id)) THEN "present"
               ELSE "absent"
      /\ Cardinality(Recorded(AttendanceOf(id).months[1].days, 15)) = 1

\* the entry with the status "apple" recorded as present
C20_Witness ==
  \E id \in ReqIds :
    /\ StatusEntryRead(id)
    /\ Len(reqs[id].attendanceValues.rows[2]) >= 3
    /\ reqs[id].attendanceValues.rows[2][3] = <<"a","p","p","l","e">>
    /\ \E k \in Recorded(AttendanceOf(id).months[1].days, 15) :
         AttendanceOf(id).months[1].days[k].status = "present"

\* a finished attendance request on a range with one entry of the student,
\* dated 15/01/2024, under a header with or without a time column
TimeEntryRead(id) ==
  /\ Done(id)
  /\ reqs[id].endpoint = "attendance"
  /\ Fetched(reqs[id].attendanceValues)
  /\ Len(reqs[id].attendanceValues.rows) = 2
  /\ Len(reqs[id].attendanceValues.rows[1]) \in {3, 4}
  /\ reqs[id].attendanceValues.rows[2][1] = reqs[id].rollNumber
  /\ Len(reqs[id].attendanceValues.rows[2]) >= 2
  /\ EntryDateText(id) = <<"1","5","/","0","1","/","2","0","2","4">>

\* the time cell of that entry, empty when there is none: the tall variant
\* reads it under the time column of the header, the wide variant at the
\* column after the status column
TimeTextOf(id) ==
  LET header == reqs[id].attendanceValues.rows[1]
      row == reqs[id].attendanceValues.rows[2]
  IN  IF variant = "tall" /\ Len(header) < 4 THEN <<>>
      ELSE IF Len(row) < 4 THEN <<>>
      ELSE row[4]

\* word occurs in text, letter case aside
ContainsWord(text, word) ==
  \E i \in 1..(Len(text) - Len(word) + 1) :
    ToLowerCase(SubSeq(text, i, i + Len(word) - 1)) = word

LateAsClaimed(text) ==
  \/ ContainsWord(text, <<"l","a","t","e">>)
  \/ ContainsWord(text, <<"d","e","l","a","y">>)

\* C21: a recorded entry whose non-empty time cell contains "late" or
\* "delay", letter case aside, has timeStatus "late", be it present or
\* absent; any other recorded entry has timeStatus "on-time" when it is
\* present and "" when it is absent; "on-time" goes with "present" only.
C21_TimeClassification ==
  \A id \in ReqIds :
    TimeEntryRead(id) =>
      /\ Resp(id).status = 200
      /\ Len(AttendanceOf(id).months) = 1
      /\ Cardinality(Recorded(AttendanceOf(id).months[1].days, 15)) = 1
      /\ \A k \in Recorded(AttendanceOf(id).months[1].days, 15) :
           LET r == AttendanceOf(id).months[1].days[k]
           IN  /\ r.timeStatus
                   = IF LateAsClaimed(TimeTextOf(id)) THEN "late"
                     ELSE IF r.status = "present" THEN "on-time"
                     ELSE ""
               /\ r.timeStatus = "on-time" => r.status = "present"

\* an absent entry whose time cell reads "delayed", recorded as late
C21_Witness ==
  \E id \in ReqIds :
    /\ TimeEntryRead(id)
    /\ TimeTextOf(id) = <<"d","e","l","a","y","e","d">>
    /\ \E k \in Recorded(AttendanceOf(id).months[1].days, 15) :
         /\ AttendanceOf(id).months[1].days[k].status = "absent"
         /\ AttendanceOf(id).months[1].days[k].timeStatus = "late"

\* the range in which the handler of request id looks its student up first
LookupRange(id) ==
  IF reqs[id].endpoint = "attendance" THEN reqs[id].attendanceValues
  ELSE reqs[id].studentValues

\* the lookup of a finished request is reached, and rollNumber is the text
\* of the identifier column's header cell and of no data row's cell
HeaderOnlyMatch(id) ==
  /\ Done(id)
  /\ reqs[id].endpoint \in {"student", "attendance", "combined"}
  /\ Fetched(LookupRange(id))
  /\ HasDataRows(LookupRange(id))
  /\ HasIdColumn(LookupRange(id))
  /\ (reqs[id].endpoint = "attendance" /\ variant = "tall") =>
       \A pred \in {"IsDateHeader", "IsStatusHeader"} :
         \E i \in 1..Len(LookupRange(id).rows[1]) :
           Holds(pred, LookupRange(id).rows[1][i])
  /\ Cell(LookupRange(id).rows[1], IdIndex(LookupRange(id)))
       = reqs[id].rollNumber
  /\ \A k \in 2..Len(LookupRange(id).rows) :
       Cell(LookupRange(id).rows[k], IdIndex(LookupRange(id)))
         # reqs[id].rollNumber

\* C22: the header row is never selected as the student's row: a request
\* whose rollNumber is the text of the identifier column's header cell and
\* of no data row's identifier cell is answered 404.
C22_HeaderRowNeverSelected ==
  \A id \in ReqIds :
    HeaderOnlyMatch(id) => Resp(id).status = 404

\* C23: provided each upstream call returns or throws, every request that
\* arrived is eventually finished with one response sent; at no time has a
\* request two responses, a finished request has one, and a finished
\* request sends nothing more.
C23_ExactlyOneResponse ==
  /\ \A id \in ReqIds :
       (reqs[id].pc # "idle") ~> (reqs[id].pc = "done" /\ Len(reqs[id].sent) = 1)
  /\ [](\A id \in ReqIds :
         /\ Len(reqs[id].sent) <= 1
         /\ reqs[id].pc = "done" => Len(reqs[id].sent) = 1)
  /\ [][\A id \in ReqIds :
          reqs[id].pc = "done" => reqs'[id] = reqs[id]]_vars

\* a combined request that passed both awaits and was answered 200, once
C23_Witness ==
  \E id \in ReqIds :
    /\ reqs[id].pc = "done"
    /\ reqs[id].endpoint = "combined"
    /\ Fetched(reqs[id].studentValues)
    /\ Fetched(reqs[id].attendanceValues)
    /\ Len(reqs[id].sent) = 1
    /\ reqs[id].sent[1].status = 200

====
